---------------------------- MODULE Spec2Model ----------------------------
(* A model of web3-tx-stream: the application state (bounded transaction  *)
(* log, scroll state, input modes), the key handlers of app/handler.rs    *)
(* the transaction batcher, the render state, the event loop, the        *)
(* reconnect task and the one-shot lookup task of main.rs, the filter of  *)
(* filter.rs, and the height and rows of the list drawn by ui/list.rs.    *)
(*                                                                        *)
(* A Transaction is modelled by its identity: the n-th record the source  *)
(* yields is the number n.  Option<T> is a sequence of length 0 (None) or *)
(* 1 (Some).  usize arithmetic is modelled on the naturals; the counters  *)
(* are bounded far below 2^64 by the guards of the actions.               *)
EXTENDS Naturals, Sequences, FiniteSets

VARIABLES
    app,        \* the AppState the event loop owns (app/state.rs)
    inserted,   \* history: the records applied to the log since the last clear
    toggles,    \* history: 0, or 1 / 2 for an odd / even run of consecutive toggles
    before,     \* history: <<transactions, show_new_on_top, selected>> when the run began
    tx_batch,   \* the TransactionBatch of run_event_loop (main.rs)
    channel,    \* the records in flight on the bounded channel to the loop
    sent,       \* the number of records the source has put on the channel
    received,   \* history: the records the loop has taken from the channel
    last_call,  \* history: <<method, result>> of the last TransactionBatch call
    ticks,      \* history: the render ticks handled so far, modulo 2
    sup,        \* the task of spawn_rpc_task: where it is, the record it holds
    rx_open,    \* the loop still owns tx_receiver (it has not returned)
    sup_trace,  \* history: the events, call results and sleeps of the task
    input_events, \* the key events ready on the EventStream of run_event_loop
    keys_handled, \* history: the number of key events the loop has handled
    call,       \* history: the operation applied last, with its arguments
    render_state, \* the RenderState of run_event_loop (main.rs)
    frames,     \* history: the frames drawn so far, modulo 2
    batch_age,  \* history: the milliseconds since the pending batch got its first record
    events,     \* the app events in flight on the unbounded channel to the loop
    fetch       \* the number of one-shot tasks of spawn_tx_fetch_task that run

histvars == <<inserted, toggles, before>>
supvars == <<sup, rx_open, sup_trace>>
inputvars == <<input_events, keys_handled>>
rendervars == <<render_state, frames>>
taskvars == <<events, fetch>>
loopvars == <<tx_batch, channel, sent, received, last_call, ticks, supvars, inputvars, call,
              rendervars, batch_age, taskvars>>
vars == <<app, inserted, toggles, before, tx_batch, channel, sent, received, last_call, ticks,
          sup, rx_open, sup_trace, input_events, keys_handled, call, render_state, frames,
          batch_age, events, fetch>>

----------------------------------------------------------------------------
(* Bounds of the model.                                                   *)

\* max_transactions is drawn from 0..MaxCap
MaxCap == 3
\* at most max_transactions + MaxExtra records are applied to the log
MaxExtra == 2
\* in SpecView at most max_transactions + MaxViewExtra records are applied
MaxViewExtra == 1
\* in SpecMode max_transactions is MaxModeCap
MaxModeCap == 1
\* in SpecMode at most max_transactions + MaxModeExtra records are applied
MaxModeExtra == 1
\* in SpecLoop the source yields at most MaxRecords records
MaxRecords == 13
\* in SpecLoop at most MaxInFlight records wait on the channel
MaxInFlight == 2
\* the filter query is at most MaxQuery characters long
MaxQuery == 1
\* the details view is scrolled down by at most MaxDetailsScroll lines
MaxDetailsScroll == 1
\* the connection attempts of the reconnect task
MaxAttempts == 3
\* the records the stream yields to the reconnect task
MaxSupRecords == 2
\* the records the stream yields beyond the capacity of the channel
MaxOver == 1
\* the records the loop takes from a full channel
MaxDrain == 1
\* the key events of the input stream
MaxKeys == 2
\* the records of the source while the loop waits on all its sources
MaxSelRecords == 2
\* the bytes of the query under the editing operations
MaxEditLen == 3
\* the records of the source that yields few records and then none
MaxTickRecords == 2
\* the key events of the input stream from the start of the loop to its return
MaxRunKeys == 3
\* the records of the source from the start of the loop to its return
MaxRunRecords == 1

----------------------------------------------------------------------------
(* Program constants.                                                     *)

viewport_height == 20
page_size == 10
DEFAULT_MAX_TRANSACTIONS == 1000
BATCH_SIZE == 10
BATCH_TIMEOUT_MS == 50
CHANNEL_CAPACITY == 1000
MAX_FPS == 60
FRAME_TIME_MS == 1000 \div MAX_FPS

None == <<>>
Some(x) == <<x>>

saturating_sub(a, b) == IF a > b THEN a - b ELSE 0
Min(a, b) == IF a < b THEN a ELSE b

Reverse(q) == [i \in 1..Len(q) |-> q[Len(q) + 1 - i]]

\* A String is the sequence of its UTF-8 bytes.  A character of WideChars
\* takes two bytes, its first byte and a continuation byte; every other
\* character of the model is ASCII and takes one.
WideChars == {"U+00E9"}
utf8(c) == IF c \in WideChars THEN <<c, "cont">> ELSE <<c>>

\* str::is_char_boundary(idx), idx counted from 0
is_char_boundary(q, idx) ==
    idx = 0 \/ idx = Len(q) \/ (idx < Len(q) /\ q[idx + 1] # "cont")

\* String::insert(idx, c): panics when idx is no character boundary
string_insert(q, idx, c) ==
    IF idx > Len(q) \/ ~is_char_boundary(q, idx)
    THEN [panic |-> TRUE, value |-> q]
    ELSE [panic |-> FALSE,
          value |-> SubSeq(q, 1, idx) \o utf8(c) \o SubSeq(q, idx + 1, Len(q))]

\* String::remove(idx): removes the character that starts at idx; panics
\* when idx is the length or no character boundary
string_remove(q, idx) ==
    IF idx >= Len(q) \/ ~is_char_boundary(q, idx)
    THEN [panic |-> TRUE, value |-> q]
    ELSE LET w == IF idx + 2 <= Len(q) /\ q[idx + 2] = "cont" THEN 2 ELSE 1
         IN [panic |-> FALSE,
             value |-> SubSeq(q, 1, idx) \o SubSeq(q, idx + w + 1, Len(q))]

----------------------------------------------------------------------------
(* Key events.  A key is <<code, modifier>>; a character key has a        *)
(* one-character code.                                                    *)

Chars == {"q", "y", "Y", "n", "N", "k", "j", "g", "G", "r", "t", "c", "C", "/", "\\", "x"}
SpecialKeys == {"Esc", "Enter", "Up", "Down", "PageUp", "PageDown", "Home", "End",
                "Backspace", "Delete", "Left", "Right", "Tab"}
Keys == {<<c, "NONE">> : c \in Chars \cup WideChars \cup SpecialKeys}
            \cup {<<"c", "CONTROL">>, <<"C", "SHIFT">>}

ErrorMessages == {"Connecting to RPC endpoint...", "Connection error", "Subscription error"}

----------------------------------------------------------------------------
(* app/state.rs                                                           *)

\* FilterState::default()
FilterStateNew == [query |-> <<>>, active |-> FALSE, cursor_position |-> 0]

\* The field quit_confirmation is read and written by app/handler.rs and read
\* by ui/mod.rs; AppState::new as given does not list it.  The dialog is not
\* shown when the program starts (Scenario D starts in Normal).
quit_confirmation_new == FALSE

\* panicked is not a field of AppState: it says that a call on the state has
\* panicked, which ends the task that owns the state.
AppStateNew(max) ==
    [ transactions |-> <<>>,
      max_transactions |-> max,
      offset |-> 0,
      selected |-> 0,
      total_transactions |-> 0,
      connected |-> FALSE,
      last_error |-> None,
      should_quit |-> FALSE,
      panicked |-> FALSE,
      show_new_on_top |-> TRUE,
      show_details |-> FALSE,
      selected_transaction |-> None,
      details_scroll_offset |-> 0,
      quit_confirmation |-> quit_confirmation_new,
      filter_query |-> FilterStateNew.query,
      filter_active |-> FilterStateNew.active,
      filter_cursor |-> FilterStateNew.cursor_position ]

\* VecDeque::pop_back / pop_front: nothing happens on an empty deque
pop_back(q) == IF Len(q) = 0 THEN q ELSE SubSeq(q, 1, Len(q) - 1)
pop_front(q) == IF Len(q) = 0 THEN q ELSE Tail(q)

\* Faulty variant, to show what the properties are sensitive to: the eviction takes the newest record, at the front
add_transaction_prepend_evicts_front(s, tx) ==
    LET kept == IF Len(s.transactions) >= s.max_transactions
                THEN pop_front(s.transactions) ELSE s.transactions
        txs == <<tx>> \o kept
        shift == Len(txs) # 0 /\ s.selected > 0
    IN [s EXCEPT !.transactions = txs,
                 !.selected = IF shift THEN s.selected + 1 ELSE s.selected,
                 !.offset = IF shift THEN s.offset + 1 ELSE s.offset]

\* Faulty variant, to show what the properties are sensitive to: the selection is not shifted
add_transaction_prepend_no_shift(s, tx) ==
    LET kept == IF Len(s.transactions) >= s.max_transactions
                THEN pop_back(s.transactions) ELSE s.transactions
    IN [s EXCEPT !.transactions = <<tx>> \o kept]

add_transaction_prepend(s, tx) ==
    LET kept == IF Len(s.transactions) >= s.max_transactions
                THEN pop_back(s.transactions) ELSE s.transactions
        txs == <<tx>> \o kept
        shift == Len(txs) # 0 /\ s.selected > 0
    IN [s EXCEPT !.transactions = txs,
                 !.selected = IF shift THEN s.selected + 1 ELSE s.selected,
                 !.offset = IF shift THEN s.offset + 1 ELSE s.offset]

\* Faulty variant, to show what the properties are sensitive to: the selection is not shifted after the eviction
add_transaction_append_no_shift(s, tx) ==
    LET full == Len(s.transactions) >= s.max_transactions
        kept == IF full THEN pop_front(s.transactions) ELSE s.transactions
    IN [s EXCEPT !.transactions = Append(kept, tx),
                 !.offset = IF full /\ s.offset > 0
                            THEN saturating_sub(s.offset, 1) ELSE s.offset]

add_transaction_append(s, tx) ==
    LET full == Len(s.transactions) >= s.max_transactions
        kept == IF full THEN pop_front(s.transactions) ELSE s.transactions
    IN [s EXCEPT !.transactions = Append(kept, tx),
                 !.selected = IF full /\ s.selected > 0
                              THEN saturating_sub(s.selected, 1) ELSE s.selected,
                 !.offset = IF full /\ s.offset > 0
                            THEN saturating_sub(s.offset, 1) ELSE s.offset]

add_transaction(s, tx) ==
    LET t == IF s.show_new_on_top THEN add_transaction_prepend(s, tx)
                                  ELSE add_transaction_append(s, tx)
    IN [t EXCEPT !.total_transactions = s.total_transactions + 1]

\* Faulty variant, to show what the properties are sensitive to: the offset does not follow the selection
scroll_up_keeps_offset(s) ==
    IF s.selected > 0
    THEN [s EXCEPT !.selected = saturating_sub(s.selected, 1)]
    ELSE s

scroll_up(s) ==
    IF s.selected > 0
    THEN LET sel == saturating_sub(s.selected, 1)
         IN [s EXCEPT !.selected = sel,
                      !.offset = IF sel < s.offset THEN sel ELSE s.offset]
    ELSE s

\* Faulty variant, to show what the properties are sensitive to: the selection moves down without looking at the length
scroll_down_unbounded(s) ==
    LET sel == s.selected + 1
    IN [s EXCEPT !.selected = sel,
                 !.offset = IF sel >= s.offset + viewport_height
                            THEN saturating_sub(sel, viewport_height - 1)
                            ELSE s.offset]

scroll_down(s) ==
    LET max_selected == saturating_sub(Len(s.transactions), 1)
    IN IF s.selected < max_selected
       THEN LET sel == Min(s.selected + 1, max_selected)
            IN [s EXCEPT !.selected = sel,
                         !.offset = IF sel >= s.offset + viewport_height
                                    THEN saturating_sub(sel, viewport_height - 1)
                                    ELSE s.offset]
       ELSE s


RECURSIVE scroll_up_times(_, _)
scroll_up_times(s, n) == IF n = 0 THEN s ELSE scroll_up_times(scroll_up(s), n - 1)

RECURSIVE scroll_down_times(_, _)
scroll_down_times(s, n) == IF n = 0 THEN s ELSE scroll_down_times(scroll_down(s), n - 1)

page_up(s) == scroll_up_times(s, page_size)
page_down(s) == scroll_down_times(s, page_size)

jump_to_top(s) == [s EXCEPT !.offset = 0, !.selected = 0]

\* Faulty variant, to show what the properties are sensitive to: the jump to the bottom leaves the offset where it is
jump_to_bottom_keeps_offset(s) ==
    [s EXCEPT !.selected = saturating_sub(Len(s.transactions), 1)]

jump_to_bottom(s) ==
    LET max_selected == saturating_sub(Len(s.transactions), 1)
    IN [s EXCEPT !.selected = max_selected,
                 !.offset = saturating_sub(max_selected, viewport_height - 1)]

set_connected(s, connected) ==
    [s EXCEPT !.connected = connected,
              !.last_error = IF connected THEN None ELSE s.last_error]

\* Faulty variant, to show what the properties are sensitive to: the error is stored and connected is left as it is
set_error_keeps_connected(s, error) ==
    [s EXCEPT !.last_error = Some(error)]

set_error(s, error) ==
    [s EXCEPT !.last_error = Some(error), !.connected = FALSE]

quit(s) == [s EXCEPT !.should_quit = TRUE]

\* Faulty variant, to show what the properties are sensitive to: the scroll position is not reset
toggle_sort_order_keeps_scroll(s) ==
    [s EXCEPT !.show_new_on_top = ~s.show_new_on_top,
              !.transactions = Reverse(s.transactions)]

toggle_sort_order(s) ==
    [s EXCEPT !.show_new_on_top = ~s.show_new_on_top,
              !.transactions = Reverse(s.transactions),
              !.offset = 0,
              !.selected = 0]

\* Faulty variant, to show what the properties are sensitive to: the details view is left as it is
clear_transactions_keeps_details(s) ==
    [s EXCEPT !.transactions = <<>>,
              !.offset = 0,
              !.selected = 0]

clear_transactions(s) ==
    [s EXCEPT !.transactions = <<>>,
              !.offset = 0,
              !.selected = 0,
              !.selected_transaction = None,
              !.show_details = FALSE]

\* Faulty variant, to show what the properties are sensitive to: the view opens also when no record is selected
show_transaction_details_always(s) ==
    [s EXCEPT !.selected_transaction = IF s.selected < Len(s.transactions)
                                       THEN Some(s.transactions[s.selected + 1])
                                       ELSE None,
              !.show_details = TRUE,
              !.details_scroll_offset = 0]

show_transaction_details(s) ==
    IF s.selected < Len(s.transactions)
    THEN [s EXCEPT !.selected_transaction = Some(s.transactions[s.selected + 1]),
                   !.show_details = TRUE,
                   !.details_scroll_offset = 0]
    ELSE s

hide_transaction_details(s) ==
    [s EXCEPT !.show_details = FALSE,
              !.selected_transaction = None,
              !.details_scroll_offset = 0]

scroll_details_up(s) ==
    [s EXCEPT !.details_scroll_offset = saturating_sub(s.details_scroll_offset, 1)]
scroll_details_down(s) ==
    [s EXCEPT !.details_scroll_offset = s.details_scroll_offset + 1]
scroll_details_page_up(s) ==
    [s EXCEPT !.details_scroll_offset = saturating_sub(s.details_scroll_offset, 10)]
scroll_details_page_down(s) ==
    [s EXCEPT !.details_scroll_offset = s.details_scroll_offset + 10]

----------------------------------------------------------------------------
(* filter.rs: the FilterState operations, on the filter_* fields.         *)

filter_activate(s) ==
    [s EXCEPT !.filter_active = TRUE, !.filter_cursor = Len(s.filter_query)]

filter_deactivate(s) == [s EXCEPT !.filter_active = FALSE]

filter_clear(s) == [s EXCEPT !.filter_query = <<>>, !.filter_cursor = 0]

is_active(s) == s.filter_active

has_query(s) == s.filter_query # <<>>

\* a panic unwinds out of the handler and of the loop: the state is left
\* as the panicking call found it
panic(s) == [s EXCEPT !.panicked = TRUE]

add_char(s, c) ==
    LET r == string_insert(s.filter_query, s.filter_cursor, c)
    IN IF r.panic THEN panic(s)
       ELSE [s EXCEPT !.filter_query = r.value,
                      !.filter_cursor = s.filter_cursor + 1]

delete_char_before_cursor(s) ==
    IF s.filter_cursor > 0
    THEN LET r == string_remove(s.filter_query, s.filter_cursor - 1)
         IN IF r.panic THEN panic(s)
            ELSE [s EXCEPT !.filter_query = r.value,
                           !.filter_cursor = s.filter_cursor - 1]
    ELSE s

delete_char_at_cursor(s) ==
    IF s.filter_cursor < Len(s.filter_query)
    THEN LET r == string_remove(s.filter_query, s.filter_cursor)
         IN IF r.panic THEN panic(s)
            ELSE [s EXCEPT !.filter_query = r.value]
    ELSE s

move_cursor_left(s) == [s EXCEPT !.filter_cursor = saturating_sub(s.filter_cursor, 1)]

move_cursor_right(s) ==
    [s EXCEPT !.filter_cursor = Min(s.filter_cursor + 1, Len(s.filter_query))]

move_cursor_to_start(s) == [s EXCEPT !.filter_cursor = 0]

move_cursor_to_end(s) == [s EXCEPT !.filter_cursor = Len(s.filter_query)]

\* char::is_ascii_hexdigit
is_ascii_hexdigit(c) ==
    c \in {"0", "1", "2", "3", "4", "5", "6", "7", "8", "9",
           "a", "b", "c", "d", "e", "f", "A", "B", "C", "D", "E", "F"}

\* Faulty variant, to show what the properties are sensitive to: the letter case is kept
to_lowercase_keeps_case(q) == q

\* str::to_lowercase, on the letters of the model
to_lowercase(q) ==
    [i \in 1..Len(q) |->
        CASE q[i] = "A" -> "a" [] q[i] = "B" -> "b" [] q[i] = "C" -> "c"
          [] q[i] = "D" -> "d" [] q[i] = "E" -> "e" [] q[i] = "F" -> "f"
          [] q[i] = "G" -> "g" [] q[i] = "X" -> "x"
          [] OTHER -> q[i]]

\* str::starts_with
starts_with(q, prefix) ==
    Len(q) >= Len(prefix) /\ SubSeq(q, 1, Len(prefix)) = prefix

\* str::contains
contains(q, pattern) ==
    \E i \in 0..Len(q) :
        i + Len(pattern) <= Len(q) /\ SubSeq(q, i + 1, i + Len(pattern)) = pattern

\* Faulty variant, to show what the properties are sensitive to: no query is taken for a hash
is_transaction_hash_never(query) == FALSE

\* FilterState::is_transaction_hash, on the query
is_transaction_hash(query) ==
    IF Len(query) = 66 /\ starts_with(query, <<"0", "x">>)
    THEN \A i \in 3..Len(query) : is_ascii_hexdigit(query[i])
    ELSE FALSE

\* FilterState::matches, on the query and the hash, from and to of the
\* transaction; each return of the source is one branch
matches(query, transaction) ==
    IF query = <<>> THEN TRUE
    ELSE LET query_lower == to_lowercase(query)
         IN IF to_lowercase(transaction.hash) = query_lower THEN TRUE
            ELSE IF contains(to_lowercase(transaction.from), query_lower) THEN TRUE
            ELSE IF transaction.to # None
                    /\ contains(to_lowercase(transaction.to[1]), query_lower) THEN TRUE
            ELSE IF ~is_transaction_hash(query)
                    /\ contains(to_lowercase(transaction.hash), query_lower) THEN TRUE
            ELSE FALSE

----------------------------------------------------------------------------
(* app/handler.rs                                                         *)

reset_scroll(s) == [s EXCEPT !.offset = 0, !.selected = 0]

\* Faulty variant, to show what the properties are sensitive to: Esc confirms the quit
handle_quit_confirmation_esc_quits(key, s) ==
    CASE key[1] \in {"y", "Y", "Esc"} -> quit(s)
      [] key[1] \in {"n", "N"} -> [s EXCEPT !.quit_confirmation = FALSE]
      [] OTHER -> s

handle_quit_confirmation(key, s) ==
    CASE key[1] \in {"y", "Y"} -> quit(s)
      [] key[1] \in {"n", "N", "Esc"} -> [s EXCEPT !.quit_confirmation = FALSE]
      [] OTHER -> s

\* Faulty variant, to show what the properties are sensitive to: q asks for the quit confirmation and leaves the details open
handle_details_navigation_q_confirms(key, s) ==
    CASE key[1] = "q" -> [s EXCEPT !.quit_confirmation = TRUE]
      [] key[1] \in {"Esc", "Enter"} -> hide_transaction_details(s)
      [] key[1] \in {"Up", "k"} -> scroll_details_up(s)
      [] key[1] \in {"Down", "j"} -> scroll_details_down(s)
      [] key[1] = "PageUp" -> scroll_details_page_up(s)
      [] key[1] = "PageDown" -> scroll_details_page_down(s)
      [] key[1] \in {"Home", "g"} -> [s EXCEPT !.details_scroll_offset = 0]
      [] OTHER -> s

\* Faulty variant, to show what the properties are sensitive to: Up and Down move the selection of the list behind the details
handle_details_navigation_moves_selection(key, s) ==
    CASE key[1] \in {"Esc", "Enter", "q"} -> hide_transaction_details(s)
      [] key[1] \in {"Up", "k"} -> scroll_up(s)
      [] key[1] \in {"Down", "j"} -> scroll_down(s)
      [] key[1] = "PageUp" -> scroll_details_page_up(s)
      [] key[1] = "PageDown" -> scroll_details_page_down(s)
      [] key[1] \in {"Home", "g"} -> [s EXCEPT !.details_scroll_offset = 0]
      [] OTHER -> s

handle_details_navigation(key, s) ==
    CASE key[1] \in {"Esc", "Enter", "q"} -> hide_transaction_details(s)
      [] key[1] \in {"Up", "k"} -> scroll_details_up(s)
      [] key[1] \in {"Down", "j"} -> scroll_details_down(s)
      [] key[1] = "PageUp" -> scroll_details_page_up(s)
      [] key[1] = "PageDown" -> scroll_details_page_down(s)
      [] key[1] \in {"Home", "g"} -> [s EXCEPT !.details_scroll_offset = 0]
      [] OTHER -> s

\* Faulty variant, to show what the properties are sensitive to: Enter clears the query as Esc does
handle_filter_input_enter_clears(key, s) ==
    CASE key[1] = "Esc" -> reset_scroll(filter_deactivate(filter_clear(s)))
      [] key[1] = "Enter" -> reset_scroll(filter_deactivate(filter_clear(s)))
      [] key[1] \in Chars \cup WideChars -> add_char(s, key[1])
      [] key[1] = "Backspace" -> delete_char_before_cursor(s)
      [] key[1] = "Delete" -> delete_char_at_cursor(s)
      [] key[1] = "Left" -> move_cursor_left(s)
      [] key[1] = "Right" -> move_cursor_right(s)
      [] key[1] = "Home" -> move_cursor_to_start(s)
      [] key[1] = "End" -> move_cursor_to_end(s)
      [] OTHER -> s

handle_filter_input(key, s) ==
    CASE key[1] = "Esc" -> reset_scroll(filter_deactivate(filter_clear(s)))
      [] key[1] = "Enter" -> reset_scroll(filter_deactivate(s))
      [] key[1] \in Chars \cup WideChars -> add_char(s, key[1])
      [] key[1] = "Backspace" -> delete_char_before_cursor(s)
      [] key[1] = "Delete" -> delete_char_at_cursor(s)
      [] key[1] = "Left" -> move_cursor_left(s)
      [] key[1] = "Right" -> move_cursor_right(s)
      [] key[1] = "Home" -> move_cursor_to_start(s)
      [] key[1] = "End" -> move_cursor_to_end(s)
      [] OTHER -> s

\* Faulty variant, to show what the properties are sensitive to: the arm of c comes before the arm of Ctrl-C, which clears the log
handle_main_navigation_ctrl_c_clears(key, s) ==
    IF key[1] = "q" THEN [s EXCEPT !.quit_confirmation = TRUE]
    ELSE IF key[1] = "Esc"
         THEN IF has_query(s)
              THEN reset_scroll(filter_deactivate(filter_clear(s)))
              ELSE [s EXCEPT !.quit_confirmation = TRUE]
    ELSE IF key[1] = "c" THEN clear_transactions(s)
    ELSE IF key[1] = "/" THEN filter_activate(s)
    ELSE IF key[1] = "\\" THEN reset_scroll(filter_deactivate(filter_clear(s)))
    ELSE IF key[1] \in {"Up", "k"} THEN scroll_up(s)
    ELSE IF key[1] \in {"Down", "j"} THEN scroll_down(s)
    ELSE IF key[1] = "PageUp" THEN page_up(s)
    ELSE IF key[1] = "PageDown" THEN page_down(s)
    ELSE IF key[1] \in {"Home", "g"} THEN jump_to_top(s)
    ELSE IF key[1] \in {"End", "G"} THEN jump_to_bottom(s)
    ELSE IF key[1] = "r" THEN set_connected(s, FALSE)
    ELSE IF key[1] = "t" THEN toggle_sort_order(s)
    ELSE IF key[1] = "C" /\ key[2] = "SHIFT" THEN clear_transactions(s)
    ELSE IF key[1] = "Enter" THEN show_transaction_details(s)
    ELSE s

\* The arms of the match are tried in the order of the source: the first
\* one that matches is taken.
handle_main_navigation(key, s) ==
    IF key[1] = "q" THEN [s EXCEPT !.quit_confirmation = TRUE]
    ELSE IF key[1] = "Esc"
         THEN IF has_query(s)
              THEN reset_scroll(filter_deactivate(filter_clear(s)))
              ELSE [s EXCEPT !.quit_confirmation = TRUE]
    ELSE IF key[1] = "c" /\ key[2] = "CONTROL" THEN [s EXCEPT !.quit_confirmation = TRUE]
    ELSE IF key[1] = "/" THEN filter_activate(s)
    ELSE IF key[1] = "\\" THEN reset_scroll(filter_deactivate(filter_clear(s)))
    ELSE IF key[1] \in {"Up", "k"} THEN scroll_up(s)
    ELSE IF key[1] \in {"Down", "j"} THEN scroll_down(s)
    ELSE IF key[1] = "PageUp" THEN page_up(s)
    ELSE IF key[1] = "PageDown" THEN page_down(s)
    ELSE IF key[1] \in {"Home", "g"} THEN jump_to_top(s)
    ELSE IF key[1] \in {"End", "G"} THEN jump_to_bottom(s)
    ELSE IF key[1] = "r" THEN set_connected(s, FALSE)
    ELSE IF key[1] = "t" THEN toggle_sort_order(s)
    ELSE IF key[1] = "c" THEN clear_transactions(s)
    ELSE IF key[1] = "C" /\ key[2] = "SHIFT" THEN clear_transactions(s)
    ELSE IF key[1] = "Enter" THEN show_transaction_details(s)
    ELSE s

\* The handler handle_key_event picks for state s
handler_for(s) ==
    IF s.quit_confirmation THEN "handle_quit_confirmation"
    ELSE IF is_active(s) THEN "handle_filter_input"
    ELSE IF s.show_details THEN "handle_details_navigation"
    ELSE "handle_main_navigation"

run_handler(h, key, s) ==
    CASE h = "handle_quit_confirmation" -> handle_quit_confirmation(key, s)
      [] h = "handle_filter_input" -> handle_filter_input(key, s)
      [] h = "handle_details_navigation" -> handle_details_navigation(key, s)
      [] h = "handle_main_navigation" -> handle_main_navigation(key, s)

handle_key_event(key, s) == run_handler(handler_for(s), key, s)

\* AppEvent::process, one operator per variant
process_input(key, s) == handle_key_event(key, s)
process_transaction(tx, s) == add_transaction(s, tx)
process_connected(s) == set_connected(s, TRUE)
process_disconnected(error, s) == set_error(s, error)

----------------------------------------------------------------------------
(* main.rs: TransactionBatch.  The timer is kept as the milliseconds that *)
(* have passed since the Instant it holds, up to BATCH_TIMEOUT_MS + 1:    *)
(* the code only asks whether more than BATCH_TIMEOUT_MS have passed.     *)
(* A method is an operator from the batch to [ret, self]: the value it    *)
(* returns and the batch it leaves.                                       *)

TransactionBatchNew == [batch |-> <<>>, elapsed |-> 0]

timed_out(b) == b.elapsed > BATCH_TIMEOUT_MS

flush(b) ==
    IF b.batch = <<>>
    THEN [ret |-> None, self |-> b]
    ELSE [ret |-> Some(b.batch), self |-> [batch |-> <<>>, elapsed |-> 0]]

\* Faulty variant, to show what the properties are sensitive to: the batch is flushed only above BATCH_SIZE
add_flushes_above_size(b, tx) ==
    LET pushed == [b EXCEPT !.batch = Append(b.batch, tx)]
    IN IF Len(pushed.batch) > BATCH_SIZE \/ timed_out(pushed)
       THEN flush(pushed)
       ELSE [ret |-> None, self |-> pushed]

add(b, tx) ==
    LET pushed == [b EXCEPT !.batch = Append(b.batch, tx)]
    IN IF Len(pushed.batch) >= BATCH_SIZE \/ timed_out(pushed)
       THEN flush(pushed)
       ELSE [ret |-> None, self |-> pushed]

\* Faulty variant, to show what the properties are sensitive to: the timer is not asked
flush_if_timeout_ignores_timer(b) == flush(b)

\* Faulty variant, to show what the properties are sensitive to: the render tick never flushes
flush_if_timeout_never(b) == [ret |-> None, self |-> b]

flush_if_timeout(b) ==
    IF b.batch # <<>> /\ timed_out(b)
    THEN flush(b)
    ELSE [ret |-> None, self |-> b]

\* Faulty variant, to show what the properties are sensitive to: the batch is applied from its end
RECURSIVE apply_batch_newest_first(_, _)
apply_batch_newest_first(batch, s) ==
    IF batch = <<>> THEN s
    ELSE apply_batch_newest_first(SubSeq(batch, 1, Len(batch) - 1),
                                  process_transaction(batch[Len(batch)], s))

\* for transaction in batch { handle_event(AppEvent::Transaction(transaction)) }
RECURSIVE apply_batch(_, _)
apply_batch(batch, s) ==
    IF batch = <<>> THEN s
    ELSE apply_batch(Tail(batch), process_transaction(Head(batch), s))

\* if let Some(batch) = ret { apply the batch }
apply_result(ret, s) == IF ret = None THEN s ELSE apply_batch(ret[1], s)

----------------------------------------------------------------------------
(* ui/mod.rs and ui/list.rs: the rows of the list that are drawn.         *)

\* the heights of the terminal, frame.area().height
TerminalHeights == {24, 31, 40}

\* render_ui: the list takes what the header (3) and the footer (4) leave,
\* for a terminal that has room for the three of them
list_area_height(terminal_height) == terminal_height - 3 - 4

\* render_transaction_list: area.height.saturating_sub(4)
visible_height(area_height) == saturating_sub(area_height, 4)

----------------------------------------------------------------------------
(* main.rs: RenderState.  last_render is kept as the milliseconds that    *)
(* have passed since it, up to FRAME_TIME_MS: the code only asks whether  *)
(* at least FRAME_TIME_MS have passed.                                    *)

RenderStateNew == [needs_render |-> TRUE, elapsed |-> 0]

request_render(r) == [r EXCEPT !.needs_render = TRUE]

\* Faulty variant, to show what the properties are sensitive to: a frame is drawn whenever one is asked for
should_render_ignores_frame_time(r) == r.needs_render

should_render(r) == r.needs_render /\ r.elapsed >= FRAME_TIME_MS

mark_rendered(r) == [r EXCEPT !.elapsed = 0, !.needs_render = FALSE]

\* render_state.request_render() after a batch was applied
render_after(ret, r) == IF ret = None THEN r ELSE request_render(r)

----------------------------------------------------------------------------
(* main.rs, spawn_rpc_task and rpc/client.rs                              *)

\* The task starts at the top of its loop, holding no record.
SupervisorNew == [pc |-> "loop", holding |-> None, yielded |-> 0, attempts |-> 0]

\* RpcClient::connect builds the client and opens no connection.
connect == "Ok"

\* RpcClient::subscribe_pending_txs: Err when the WebSocket cannot be
\* opened, else the receiver of the stream.
subscribe_pending_txs == {"Ok", "Err"}

Connected == <<"Connected">>
Disconnected(error) == <<"Disconnected", error>>

\* The top of the loop up to the result of connect: what is sent on
\* event_sender.
attempt_events ==
    <<Disconnected("Connecting to RPC endpoint..."), <<"connect", connect>>>>
    \o (IF connect = "Ok" THEN <<Connected>> ELSE <<Disconnected("Connection error")>>)

\* tx_sender.send(tx) failed: break leaves the while loop, the task goes on
\* to its sleep
after_failed_send == "sleep"

\* Faulty variant, to show what the properties are sensitive to: a subscribe error ends the task
after_subscribe_error_returns == "return"

\* the Err arm of the subscribe match is followed by the sleep
after_subscribe_error == "sleep"

\* Faulty variant, to show what the properties are sensitive to: the channel takes a record at any length
send_ready_unbounded(ch) == TRUE

\* Sender::send completes when the channel of mpsc::channel(1000) has room
\* and waits otherwise
send_ready(ch) == Len(ch) < CHANNEL_CAPACITY

\* the entries of a trace of the task that are app events
IsAppEvent(e) == e[1] \in {"Connected", "Disconnected"}

\* let _ = event_sender.send(..), for each event of es in turn: the event is
\* put on the unbounded channel, and is lost once the loop has returned and
\* dropped event_receiver
send_events(q, es, open) == IF open THEN q \o SelectSeq(es, IsAppEvent) ELSE q

\* What sets app_state.pending_tx_fetch is not part of the source: a key
\* event may or may not leave a transaction hash to look up.
pending_tx_fetch == {None, Some("hash")}

\* RpcClient::fetch_transaction_by_hash: only the failed lookup is
\* modelled; AppEvent has no variant for the events of the two Ok results
fetch_transaction_by_hash == {"Err"}

\* Faulty variant, to show what the properties are sensitive to: the error of the lookup is reported by both arms
tx_fetch_events_reports_twice(r) ==
    <<Disconnected("Connection error"), Disconnected("Failed to fetch transaction")>>

\* the task of spawn_tx_fetch_task, for the result r of the lookup: what it
\* sends on event_sender
tx_fetch_events(r) ==
    IF connect = "Ok"
    THEN CASE r = "Err" -> <<Disconnected("Failed to fetch transaction")>>
    ELSE <<Disconnected("Connection error")>>

\* AppEvent::process of an event taken from the channel
process_event(e, s) ==
    IF e = Connected THEN process_connected(s) ELSE process_disconnected(e[2], s)

Mode(s) ==
    IF s.quit_confirmation THEN "QuitConfirm"
    ELSE IF s.filter_active THEN "FilterEditing"
    ELSE IF s.show_details THEN "DetailsOpen"
    ELSE "Normal"

----------------------------------------------------------------------------
(* Spec: the application state under the events the loop hands to         *)
(* handle_event, until the state signals quit.                            *)

\* The history variables after a step from app to t.  Only toggle_sort_order
\* writes show_new_on_top, only add_transaction writes total_transactions,
\* and the log is empty exactly when nothing was added since the last clear
\* (an eviction is always followed by a push).
History(t) ==
    LET toggled == t.show_new_on_top # app.show_new_on_top
    IN /\ inserted' = IF t.transactions = <<>> THEN <<>>
                      ELSE IF t.total_transactions # app.total_transactions
                           THEN Append(inserted, t.total_transactions)
                      ELSE inserted
       /\ toggles' = IF toggled THEN (IF toggles = 1 THEN 2 ELSE 1) ELSE 0
       /\ before' = IF toggled
                    THEN (IF toggles = 0
                          THEN <<app.transactions, app.show_new_on_top, app.selected>>
                          ELSE before)
                    ELSE <<>>

InitWith(caps) ==
    /\ \E max \in caps : app = AppStateNew(max)
    /\ inserted = <<>>
    /\ toggles = 0
    /\ before = <<>>
    /\ tx_batch = TransactionBatchNew
    /\ channel = <<>>
    /\ sent = 0
    /\ received = <<>>
    /\ last_call = <<"new", None>>
    /\ ticks = 0
    /\ sup = SupervisorNew
    /\ rx_open = TRUE
    /\ sup_trace = <<>>
    /\ input_events = <<>>
    /\ keys_handled = 0
    /\ call = <<"new">>
    /\ render_state = RenderStateNew
    /\ frames = 0
    /\ batch_age = 0
    /\ events = <<>>
    /\ fetch = 0

\* AppEvent::Input(key), for a key of K
KeyEventIn(K) ==
    /\ ~app.should_quit
    /\ ~app.panicked
    /\ \E key \in K :
         LET t == process_input(key, app)
         IN /\ Len(t.filter_query) <= MaxQuery
            /\ t.details_scroll_offset <= MaxDetailsScroll
            /\ app' = t
            /\ History(t)
            /\ UNCHANGED loopvars

\* AppEvent::Transaction(tx): the next record of the source, while fewer than
\* max_transactions + extra were applied
TransactionEventUpTo(extra) ==
    /\ ~app.should_quit
    /\ ~app.panicked
    /\ app.total_transactions < app.max_transactions + extra
    /\ LET t == process_transaction(app.total_transactions + 1, app)
       IN /\ app' = t
          /\ History(t)
          /\ UNCHANGED loopvars

\* AppEvent::Connected
ConnectedEvent ==
    /\ ~app.should_quit
    /\ ~app.panicked
    /\ LET t == process_connected(app)
       IN app' = t /\ History(t) /\ UNCHANGED loopvars

\* AppEvent::Disconnected(error)
DisconnectedEvent ==
    /\ ~app.should_quit
    /\ ~app.panicked
    /\ \E error \in ErrorMessages :
         LET t == process_disconnected(error, app)
         IN app' = t /\ History(t) /\ UNCHANGED loopvars

----------------------------------------------------------------------------
(* Spec: the log and the viewport, under the records of the source and    *)
(* the keys that reach the log or the viewport in some mode.              *)

LogKeys == {<<c, "NONE">> : c \in {"Esc", "Enter", "Up", "Down", "PageUp", "PageDown",
                                   "Home", "End", "t", "c", "/"}}

Init == InitWith(0..MaxCap)

KeyEvent == KeyEventIn(LogKeys)

TransactionEvent == TransactionEventUpTo(MaxExtra)

Next == KeyEvent \/ TransactionEvent

Spec == Init /\ [][Next]_vars

----------------------------------------------------------------------------
(* SpecView: the viewport over a log that does not fit the window, under  *)
(* the records of the source, the navigation keys, toggle, clear and the  *)
(* keys that enter and leave the filter; no query is typed.               *)

ViewKeys == {<<c, "NONE">> : c \in {"Esc", "Up", "Down", "PageUp", "PageDown",
                                    "Home", "End", "t", "c", "/"}}

\* the smallest capacity whose full log does not fit the viewport
InitView == InitWith({viewport_height + 1})

KeyEventView == KeyEventIn(ViewKeys) /\ app'.filter_query = app.filter_query

TransactionEventView == TransactionEventUpTo(MaxViewExtra)

NextView == KeyEventView \/ TransactionEventView

SpecView == InitView /\ [][NextView]_vars

----------------------------------------------------------------------------
(* SpecMode: the input modes, under the records of the source and the     *)
(* keys that some handler tells apart (without the aliases k, j, g, G, Y, *)
(* N of other keys), over a log of capacity MaxModeCap.                   *)

ModeKeys == {<<c, "NONE">> : c \in SpecialKeys \cup {"q", "y", "n", "r", "t", "c", "/"}}
                \cup {<<"c", "CONTROL">>, <<"C", "SHIFT">>}

InitMode == InitWith({MaxModeCap})

KeyEventMode == KeyEventIn(ModeKeys)

TransactionEventMode == TransactionEventUpTo(MaxModeExtra)

NextMode == KeyEventMode \/ TransactionEventMode

SpecMode == InitMode /\ [][NextMode]_vars

----------------------------------------------------------------------------
(* SpecConn: the connectivity stats, under the Connected and Disconnected *)
(* events of the reconnect task, the records of the source and the keys   *)
(* that write the stats, clear or toggle the log, or change the mode.     *)

ConnKeys == {<<c, "NONE">> : c \in {"r", "q", "n", "Esc", "Enter", "/", "c", "t"}}

InitConn == InitWith({MaxModeCap})

NextConn ==
    \/ KeyEventIn(ConnKeys)
    \/ TransactionEventMode
    \/ ConnectedEvent
    \/ DisconnectedEvent

SpecConn == InitConn /\ [][NextConn]_vars

----------------------------------------------------------------------------
(* SpecLoop: the record and render-tick branches of run_event_loop, fed   *)
(* by a source that puts the records 1, 2, ... on the channel, with the   *)
(* default capacity of the log.  Time passes in steps of Delays.  The     *)
(* render tick may come at any moment relative to the batch timer.        *)

Delays == {25, 26}

InitLoop == InitWith({DEFAULT_MAX_TRANSACTIONS})

\* tx_sender.send(tx): waits while the channel is full; the source yields n
\* records, at most inflight of them wait on the channel
SendUpTo(n, inflight) ==
    /\ sent < n
    /\ Len(channel) < Min(CHANNEL_CAPACITY, inflight)
    /\ channel' = Append(channel, sent + 1)
    /\ sent' = sent + 1
    /\ UNCHANGED <<taskvars, app, histvars, tx_batch, received, last_call, ticks, supvars, inputvars, call, rendervars, batch_age>>

Send == SendUpTo(MaxRecords, MaxInFlight)

\* Some(tx) = tx_receiver.recv(): add to the batch, apply what it returns
\* and ask for a render when a batch was applied
RecvTransaction ==
    /\ channel # <<>>
    /\ LET r == add(tx_batch, Head(channel))
       IN /\ tx_batch' = r.self
          /\ last_call' = <<"add", r.ret>>
          /\ app' = apply_result(r.ret, app)
          /\ render_state' = render_after(r.ret, render_state)
          /\ batch_age' = IF tx_batch.batch = <<>> \/ r.self.batch = <<>> THEN 0 ELSE batch_age
    /\ channel' = Tail(channel)
    /\ received' = Append(received, Head(channel))
    /\ UNCHANGED <<taskvars, histvars, sent, ticks, supvars, inputvars, call, frames>>

\* render_interval.tick(): apply the batch if it has timed out, then draw
\* the frame if a render is asked for and the last one is old enough
RenderTick ==
    /\ LET r == flush_if_timeout(tx_batch)
           asked == render_after(r.ret, render_state)
       IN /\ tx_batch' = r.self
          /\ last_call' = <<"flush_if_timeout", r.ret>>
          /\ app' = apply_result(r.ret, app)
          /\ batch_age' = IF r.self.batch = <<>> THEN 0 ELSE batch_age
          /\ IF should_render(asked)
             THEN render_state' = mark_rendered(asked) /\ frames' = 1 - frames
             ELSE render_state' = asked /\ frames' = frames
    /\ ticks' = 1 - ticks
    /\ UNCHANGED <<taskvars, histvars, channel, sent, received, supvars, inputvars, call>>

\* d milliseconds pass, for a d of D
TimePassesIn(D) ==
    /\ \E d \in D :
         /\ tx_batch' = [tx_batch EXCEPT !.elapsed = Min(tx_batch.elapsed + d,
                                                         BATCH_TIMEOUT_MS + 1)]
         /\ render_state' = [render_state EXCEPT !.elapsed = Min(render_state.elapsed + d,
                                                                 FRAME_TIME_MS)]
         /\ batch_age' = IF tx_batch.batch = <<>> THEN 0
                         ELSE Min(batch_age + d, BATCH_TIMEOUT_MS + 1)
    /\ <<tx_batch', render_state'>> # <<tx_batch, render_state>>
    /\ UNCHANGED <<taskvars, app, histvars, channel, sent, received, last_call, ticks, supvars, inputvars, call, frames>>

TimePasses == TimePassesIn(Delays)

NextLoop == Send \/ RecvTransaction \/ RenderTick \/ TimePasses

SpecLoop == InitLoop /\ [][NextLoop]_vars

----------------------------------------------------------------------------
(* SpecTick: the same two branches of run_event_loop fed by a source that *)
(* yields few records and then none.  While the loop runs the interval of *)
(* RENDER_INTERVAL_MS fires again and again, its branch of the select is  *)
(* taken, and time passes.                                                *)

SendTick == SendUpTo(MaxTickRecords, MaxInFlight)

NextTick == SendTick \/ RecvTransaction \/ RenderTick \/ TimePasses

SpecTick == InitLoop /\ [][NextTick]_vars /\ WF_vars(RenderTick) /\ WF_vars(TimePasses)

----------------------------------------------------------------------------
(* SpecSup: the reconnect task of spawn_rpc_task, the stream of its       *)
(* subscription and the loop at the other end of the record channel,      *)
(* which takes records until it returns and drops the receiver.           *)

\* top of the loop: Disconnected("Connecting..."), connect, Connected or
\* Disconnected("Connection error")
Connect ==
    /\ sup.pc = "loop"
    /\ sup.attempts < MaxAttempts
    /\ sup' = [sup EXCEPT !.pc = IF connect = "Ok" THEN "subscribe" ELSE "sleep",
                          !.attempts = @ + 1]
    /\ sup_trace' = sup_trace \o attempt_events
    /\ events' = send_events(events, attempt_events, rx_open)
    /\ UNCHANGED <<fetch, app, histvars, tx_batch, channel, sent, received, last_call, ticks, rx_open, inputvars, call, rendervars, batch_age>>

\* client.subscribe_pending_txs(): the stream, or Disconnected("Subscription error")
Subscribe ==
    /\ sup.pc = "subscribe"
    /\ \E r \in subscribe_pending_txs :
         LET sends == IF r = "Ok" THEN <<>> ELSE <<Disconnected("Subscription error")>>
         IN /\ sup' = [sup EXCEPT !.pc = IF r = "Ok" THEN "forward" ELSE after_subscribe_error]
            /\ sup_trace' = sup_trace \o <<<<"subscribe", r>>>> \o sends
            /\ events' = send_events(events, sends, rx_open)
    /\ UNCHANGED <<fetch, app, histvars, tx_batch, channel, sent, received, last_call, ticks, rx_open, inputvars, call, rendervars, batch_age>>

\* Some(tx) = rx.recv(): the stream yields its next record, while it has
\* yielded fewer than n
StreamYieldsUpTo(n) ==
    /\ sup.pc = "forward"
    /\ sup.holding = None
    /\ sup.yielded < n
    /\ sup' = [sup EXCEPT !.holding = Some(sup.yielded + 1), !.yielded = @ + 1]
    /\ UNCHANGED <<taskvars, app, histvars, tx_batch, channel, sent, received, last_call, ticks,
                   rx_open, sup_trace, inputvars, call, rendervars, batch_age>>

\* tx_sender.send(tx).await: Err when the receiver is gone (break), else the
\* record is put on the channel once it has room
SendRecord ==
    /\ sup.pc = "forward"
    /\ sup.holding # None
    /\ IF rx_open
       THEN /\ send_ready(channel)
            /\ channel' = Append(channel, sup.holding[1])
            /\ sent' = sent + 1
            /\ sup' = [sup EXCEPT !.holding = None]
            /\ UNCHANGED sup_trace
       ELSE /\ sup' = [sup EXCEPT !.holding = None, !.pc = after_failed_send]
            /\ sup_trace' = Append(sup_trace, <<"send", "Err">>)
            /\ UNCHANGED <<channel, sent>>
    /\ UNCHANGED <<taskvars, app, histvars, tx_batch, received, last_call, ticks, rx_open, inputvars, call, rendervars, batch_age>>

\* rx.recv() returns None: the subscription has ended, the while loop ends
StreamEnds ==
    /\ sup.pc = "forward"
    /\ sup.holding = None
    /\ sup' = [sup EXCEPT !.pc = "sleep"]
    /\ UNCHANGED <<taskvars, app, histvars, tx_batch, channel, sent, received, last_call, ticks,
                   rx_open, sup_trace, inputvars, call, rendervars, batch_age>>

\* sleep(Duration::from_secs(5)), then the next iteration of the loop
Sleep ==
    /\ sup.pc = "sleep"
    /\ sup' = [sup EXCEPT !.pc = "loop"]
    /\ sup_trace' = Append(sup_trace, <<"sleep">>)
    /\ UNCHANGED <<taskvars, app, histvars, tx_batch, channel, sent, received, last_call, ticks, rx_open, inputvars, call, rendervars, batch_age>>

\* run_event_loop returns: tx_receiver and event_receiver are dropped with
\* what they hold
ReceiverDropped ==
    /\ rx_open
    /\ rx_open' = FALSE
    /\ channel' = <<>>
    /\ events' = <<>>
    /\ UNCHANGED <<fetch, app, histvars, tx_batch, sent, received, last_call, ticks, sup, sup_trace, inputvars, call, rendervars, batch_age>>

\* the loop takes a record while it runs
RecvWhileOpen == rx_open /\ RecvTransaction

InitSup == InitWith({DEFAULT_MAX_TRANSACTIONS})

StreamYields == StreamYieldsUpTo(MaxSupRecords)

NextSup ==
    \/ Connect
    \/ Subscribe
    \/ StreamYields
    \/ SendRecord
    \/ StreamEnds
    \/ Sleep
    \/ ReceiverDropped
    \/ RecvWhileOpen

SpecSup == InitSup /\ [][NextSup]_vars

\* The sleep of the task ends: the timer of the runtime fires.
SpecSupFair == SpecSup /\ WF_vars(Sleep)

----------------------------------------------------------------------------
(* SpecChan: the record channel filled to its capacity by one connection  *)
(* whose stream yields more records than the channel holds, while the     *)
(* loop takes few of them.                                                *)

InitChan == InitWith({DEFAULT_MAX_TRANSACTIONS})

StreamYieldsChan == StreamYieldsUpTo(CHANNEL_CAPACITY + MaxOver + MaxDrain)

RecvChan == Len(received) < MaxDrain /\ RecvWhileOpen

NextChan == Connect \/ Subscribe \/ StreamYieldsChan \/ SendRecord \/ RecvChan

SpecChan == InitChan /\ [][NextChan]_vars

----------------------------------------------------------------------------
(* SpecSelect: the tokio::select! of run_event_loop over its four         *)
(* sources.  The app-event channel and the render interval are taken to   *)
(* be ready at every iteration, the record channel while it holds a       *)
(* record, the input stream while a key event waits on it.                *)

SelectKeys == {<<c, "NONE">> : c \in {"q", "y", "n", "Down"}}

\* the branches of the select whose future is ready
Ready ==
    (IF input_events # <<>> THEN {"input"} ELSE {})
    \cup (IF channel # <<>> THEN {"record"} ELSE {})
    \cup {"event", "tick"}

\* Faulty variant, to show what the properties are sensitive to: a biased select that polls the input stream last
select_biased_input_last(branch, ready) ==
    branch \in ready /\ (branch = "input" => ready = {"input"})

\* tokio::select! without `biased;` polls its branches from a random start:
\* any branch that is ready may be the one taken
select(branch, ready) == branch \in ready

\* crossterm's EventStream has a key event of K ready, the n-th at most
KeyReadyIn(K, n) ==
    /\ ~app.should_quit
    /\ Len(input_events) + keys_handled < n
    /\ \E key \in K : input_events' = Append(input_events, key)
    /\ UNCHANGED <<taskvars, app, histvars, tx_batch, channel, sent, received, last_call, ticks,
                   supvars, keys_handled, call, rendervars, batch_age>>

KeyReady == KeyReadyIn(SelectKeys, MaxKeys)

\* if app_state.should_quit { return Ok(()) }, at the end of the key branch
returns_after_key(s) == s.should_quit

\* Some(Ok(Event::Key(key))) = input_events.next(): handle the key and ask
\* for a render; the loop returns when the key set should_quit, and is
\* unwound when the handler panicked.  Before it returns it spawns the
\* one-shot task of spawn_tx_fetch_task when the key left a pending lookup,
\* one of P.
SelectInputWith(P) ==
    /\ rx_open
    /\ select("input", Ready)
    /\ LET t == process_input(Head(input_events), app)
       IN /\ app' = t
          /\ History(t)
          /\ rx_open' = (~returns_after_key(t) /\ ~t.panicked)
          /\ \E pending \in P :
                fetch' = IF pending = None \/ t.panicked THEN fetch ELSE fetch + 1
    /\ render_state' = request_render(render_state)
    /\ input_events' = Tail(input_events)
    /\ keys_handled' = keys_handled + 1
    /\ UNCHANGED <<events, tx_batch, channel, sent, received, last_call, ticks, sup, sup_trace, call,
                   frames, batch_age>>

\* no key handler of the source sets pending_tx_fetch
SelectInput == SelectInputWith({None})

SelectRecord == rx_open /\ select("record", Ready) /\ RecvTransaction

\* Some(event) = event_receiver.recv(): handle the event and ask for a render
SelectAppEvent ==
    /\ rx_open
    /\ select("event", Ready)
    /\ \E t \in {process_connected(app)}
                 \cup {process_disconnected(error, app) : error \in ErrorMessages} :
         app' = t /\ History(t)
    /\ render_state' = request_render(render_state)
    /\ UNCHANGED <<taskvars, tx_batch, channel, sent, received, last_call, ticks, supvars, inputvars,
                   call, frames, batch_age>>

SelectTick == rx_open /\ select("tick", Ready) /\ RenderTick

SendSelect == SendUpTo(MaxSelRecords, MaxInFlight)

InitSelect == InitWith({DEFAULT_MAX_TRANSACTIONS})

NextSelect ==
    \/ KeyReady
    \/ SendSelect
    \/ SelectInput
    \/ SelectRecord
    \/ SelectAppEvent
    \/ SelectTick

\* A branch that stays ready is taken after finitely many iterations: the
\* start of the poll order is drawn anew at each iteration.
SpecSelect == InitSelect /\ [][NextSelect]_vars /\ WF_vars(SelectInput)

----------------------------------------------------------------------------
(* SpecRun: run_event_loop from its start to its return, under keys that  *)
(* ask for the quit, confirm it, and type into the filter, while records  *)
(* and app events arrive, render ticks fire and time passes.              *)

RunKeys == {<<c, "NONE">> : c \in {"q", "y", "/"} \cup WideChars}

KeyReadyRun == KeyReadyIn(RunKeys, MaxRunKeys)

SendRun == SendUpTo(MaxRunRecords, MaxInFlight)

InitRun == InitWith({DEFAULT_MAX_TRANSACTIONS})

NextRun ==
    \/ KeyReadyRun
    \/ SendRun
    \/ SelectInput
    \/ SelectRecord
    \/ SelectAppEvent
    \/ SelectTick
    \/ TimePasses

SpecRun == InitRun /\ [][NextRun]_vars

----------------------------------------------------------------------------
(* SpecRender: the render throttle of run_event_loop.  Keys, records and  *)
(* app events ask for a render, render ticks fire at any moment, and time *)
(* passes in steps shorter and longer than FRAME_TIME_MS.                 *)

RenderKeys == {<<"Down", "NONE">>}

RenderDelays == {10, 41}

KeyReadyRender == KeyReadyIn(RenderKeys, MaxKeys)

TimePassesRender == TimePassesIn(RenderDelays)

NextRender ==
    \/ KeyReadyRender
    \/ SendTick
    \/ SelectInput
    \/ SelectRecord
    \/ SelectAppEvent
    \/ SelectTick
    \/ TimePassesRender

SpecRender == InitLoop /\ [][NextRender]_vars

----------------------------------------------------------------------------
(* SpecLookup: the reconnect task, the one-shot lookups and the loop at   *)
(* the other end of their channels.  The loop takes the app events in the *)
(* order they were sent, the records of the stream, and keys that move    *)
(* the selection or ask for the reconnect; a key may leave a lookup.      *)

LookupKeys == {<<"r", "NONE">>, <<"Down", "NONE">>}

KeyReadyLookup == KeyReadyIn(LookupKeys, MaxKeys)

SelectInputLookup == SelectInputWith(pending_tx_fetch)

\* a task of spawn_tx_fetch_task comes to its end
TxFetchCompletes ==
    /\ fetch > 0
    /\ fetch' = fetch - 1
    /\ \E r \in fetch_transaction_by_hash :
         events' = send_events(events, tx_fetch_events(r), rx_open)
    /\ UNCHANGED <<app, histvars, tx_batch, channel, sent, received, last_call, ticks, supvars,
                   inputvars, call, rendervars, batch_age>>

\* Some(event) = event_receiver.recv(): handle the event the channel holds
\* first and ask for a render
RecvAppEvent ==
    /\ rx_open
    /\ events # <<>>
    /\ LET t == process_event(Head(events), app)
       IN app' = t /\ History(t)
    /\ events' = Tail(events)
    /\ render_state' = request_render(render_state)
    /\ UNCHANGED <<fetch, tx_batch, channel, sent, received, last_call, ticks, supvars, inputvars,
                   call, frames, batch_age>>

\* longer than BATCH_TIMEOUT_MS: a pending batch is applied at the next tick
LookupDelays == {51}

TimePassesLookup == TimePassesIn(LookupDelays)

NextLookup ==
    \/ Connect
    \/ Subscribe
    \/ StreamYields
    \/ SendRecord
    \/ KeyReadyLookup
    \/ SelectInputLookup
    \/ TxFetchCompletes
    \/ RecvAppEvent
    \/ SelectRecord
    \/ SelectTick
    \/ TimePassesLookup

SpecLookup == InitSup /\ [][NextLookup]_vars

----------------------------------------------------------------------------
(* SpecEdit: the editing operations of FilterState, called in any order   *)
(* with ASCII and non-ASCII characters, on a query of up to MaxEditLen    *)
(* bytes.                                                                 *)

EditChars == {"x", "0"} \cup WideChars

FilterOps ==
    {"activate", "clear", "delete_char_before_cursor", "delete_char_at_cursor",
     "move_cursor_left", "move_cursor_right", "move_cursor_to_start", "move_cursor_to_end"}

apply_filter_op(op, s) ==
    CASE op = "activate" -> filter_activate(s)
      [] op = "clear" -> filter_clear(s)
      [] op = "delete_char_before_cursor" -> delete_char_before_cursor(s)
      [] op = "delete_char_at_cursor" -> delete_char_at_cursor(s)
      [] op = "move_cursor_left" -> move_cursor_left(s)
      [] op = "move_cursor_right" -> move_cursor_right(s)
      [] op = "move_cursor_to_start" -> move_cursor_to_start(s)
      [] op = "move_cursor_to_end" -> move_cursor_to_end(s)

\* the third entry of call alternates, so that a call shows as a change
FilterCalled(op, c, t) ==
    /\ Len(t.filter_query) <= MaxEditLen
    /\ app' = t
    /\ History(t)
    /\ call' = <<op, c, IF Len(call) = 3 THEN 1 - call[3] ELSE 0>>
    /\ UNCHANGED <<taskvars, tx_batch, channel, sent, received, last_call, ticks, supvars, inputvars, rendervars, batch_age>>

\* state.filter.add_char(c)
AddChar ==
    /\ ~app.panicked
    /\ \E c \in EditChars : FilterCalled("add_char", c, add_char(app, c))

\* any other operation of FilterState that changes it
FilterOperation ==
    /\ ~app.panicked
    /\ \E op \in FilterOps : FilterCalled(op, "", apply_filter_op(op, app))

InitEdit == InitWith({DEFAULT_MAX_TRANSACTIONS})

NextEdit == AddChar \/ FilterOperation

SpecEdit == InitEdit /\ [][NextEdit]_vars

----------------------------------------------------------------------------
(* SpecFilter: FilterState::matches applied to a query and a record.  The *)
(* hashes are `0x` and 64 hex digits, as rpc/client.rs formats them, and  *)
(* one longer string that holds a hash-shaped substring; from and to are  *)
(* addresses of `0x` and 40 hex digits.                                   *)

Rep(c, n) == [i \in 1..n |-> c]

Hashes ==
    { <<"0", "x">> \o Rep("a", 64),
      <<"0", "x">> \o Rep("a", 63) \o <<"b">>,
      <<"0", "x">> \o Rep("a", 62) \o <<"c", "a", "b">> }

Addresses == { <<"0", "x">> \o Rep("b", 40), <<"0", "x">> \o Rep("f", 40) }

Records ==
    [hash : Hashes, from : Addresses,
     to : {None, Some(<<"0", "x">> \o Rep("c", 40))}]

Queries ==
    { <<>>, <<"0", "x">>, <<"0", "X">>, <<"a">>, <<"A">>, <<"b">>, <<"B", "b">>,
      <<"c">>, <<"C", "A">>, <<"c", "a">>, <<"f">>, <<"g">>, <<"x", "a">>, <<"X", "B">>,
      <<"0", "x">> \o Rep("a", 64),
      <<"0", "x">> \o Rep("A", 64),
      <<"0", "X">> \o Rep("A", 64),
      <<"0", "x">> \o Rep("a", 63) \o <<"B">>,
      <<"0", "x">> \o Rep("a", 62) \o <<"c", "a">>,
      <<"0", "x">> \o Rep("A", 62) \o <<"C", "A">>,
      <<"0", "X">> \o Rep("a", 62) \o <<"c", "a">>,
      <<"0", "x">> \o Rep("a", 62) \o <<"c", "g">>,
      <<"0", "x">> \o Rep("a", 62) \o <<"c">>,
      <<"0", "x">> \o Rep("a", 62) \o <<"c", "a", "b">>,
      <<"0", "x">> \o Rep("f", 64) }

\* filter.matches(&tx)
Matches ==
    /\ \E query \in Queries, tx \in Records :
         call' = <<"matches", query, tx, matches(query, tx)>>
    /\ UNCHANGED <<taskvars, app, histvars, tx_batch, channel, sent, received, last_call, ticks,
                   supvars, inputvars, rendervars, batch_age>>

InitFilter == InitWith({DEFAULT_MAX_TRANSACTIONS})

NextFilter == Matches

SpecFilter == InitFilter /\ [][NextFilter]_vars

----------------------------------------------------------------------------
(* The claims.                                                            *)

Max(a, b) == IF a > b THEN a ELSE b

\* Option<&Transaction> of transactions.get(selected)
RecordAt(s) ==
    IF s.selected < Len(s.transactions) THEN Some(s.transactions[s.selected + 1]) ELSE None

\* a step that applies a record to the log
IsInsert == app'.total_transactions # app.total_transactions

\* C1: for every max_transactions the configuration accepts (0 included), the
\* log never holds more than max_transactions records.
C1_LengthWithinCapacity == Len(app.transactions) <= app.max_transactions

\* C2: in every reachable state 0 <= selected < max(length, 1).
C2_SelectedInRange == app.selected < Max(Len(app.transactions), 1)

\* C3: in every reachable state offset <= selected, and offset is a natural.
C3_OffsetWithinSelected == app.offset \in Nat /\ app.offset <= app.selected

\* C3 witness: after an eviction, a window that starts below the top and a
\* selection below its first row.
C3_Witness ==
    /\ app.offset > 0
    /\ app.offset < app.selected
    /\ Len(inserted) > app.max_transactions

\* the most recent min(N, capacity) of the records ins, in the order of the
\* direction
MostRecent(ins, capacity, newest_first) ==
    LET n == Min(Len(ins), capacity)
        recent == SubSeq(ins, Len(ins) - n + 1, Len(ins))
    IN IF newest_first THEN Reverse(recent) ELSE recent

\* C4: with capacity >= 1 the log holds exactly the most recent
\* min(N, capacity) of the N records inserted since the last clear, newest
\* first in prepend mode and oldest first in append mode, whatever toggles
\* happened in between.
C4_MostRecentRetained ==
    app.max_transactions >= 1 =>
        app.transactions = MostRecent(inserted, app.max_transactions, app.show_new_on_top)

\* C4 witness: Scenario B, capacity 3, prepend mode, R1..R4 inserted.
C4_Witness ==
    /\ app.max_transactions = 3
    /\ app.show_new_on_top
    /\ inserted = <<1, 2, 3, 4>>
    /\ app.transactions = <<4, 3, 2>>

\* C5: after two toggles in a row the record order and the direction flag
\* are those before the first toggle, and the viewport is (0, 0).
C5_ToggleTwiceRestores ==
    toggles = 2 =>
        /\ app.transactions = before[1]
        /\ app.show_new_on_top = before[2]
        /\ app.offset = 0
        /\ app.selected = 0

\* C5 witness: two toggles in a row of a log of several records, with a
\* selection below the top before the first.
C5_Witness ==
    /\ toggles = 2
    /\ Len(app.transactions) >= 3
    /\ before[3] > 0

\* the insert evicts the record under the cursor
EvictsSelected(s) ==
    /\ Len(s.transactions) >= s.max_transactions
    /\ s.selected + 1 = Len(s.transactions)

\* C6 as stated: in prepend mode every insert made while selected > 0 leaves
\* at index selected the record that was there before, at any position.
C6_SameRecordUnderCursor ==
    [][(IsInsert /\ app.show_new_on_top /\ app.selected > 0)
          => RecordAt(app') = RecordAt(app)]_vars

\* C6 amended: in prepend mode every insert made while selected > 0 points at
\* a record that the insert does not evict leaves that record at index
\* selected.
C6_SameRecordUnlessEvicted ==
    [][(/\ IsInsert
        /\ app.show_new_on_top
        /\ app.selected > 0
        /\ RecordAt(app) # None
        /\ ~EvictsSelected(app))
          => RecordAt(app') = RecordAt(app)]_vars

\* C6 witness: prepend mode at capacity after an eviction, the window and the
\* selection shifted down by inserts, a record under the cursor.
C6_Witness ==
    /\ app.show_new_on_top
    /\ app.offset > 0
    /\ app.selected > app.offset
    /\ RecordAt(app) # None
    /\ Len(inserted) > app.max_transactions

\* a step that takes a record from the channel and adds it to the batch
IsRecv == received' # received

\* C7: the pending batch never holds BATCH_SIZE records after a call, and an
\* add made before the timeout has elapsed returns nothing while the batch
\* stays below BATCH_SIZE, and returns the whole batch in arrival order,
\* leaving it empty, when the record is the BATCH_SIZE-th.
C7_SizeRule ==
    /\ [](Len(tx_batch.batch) < BATCH_SIZE)
    /\ [][(IsRecv /\ tx_batch.elapsed <= BATCH_TIMEOUT_MS) =>
             IF Len(tx_batch.batch) + 1 < BATCH_SIZE
             THEN /\ last_call' = <<"add", None>>
                  /\ tx_batch'.batch = Append(tx_batch.batch, Head(channel))
             ELSE /\ last_call' = <<"add", Some(Append(tx_batch.batch, Head(channel)))>>
                  /\ tx_batch'.batch = <<>>]_vars

\* C7 witness: the tenth add has returned the records 1..10 and the batch is
\* empty.
C7_Witness ==
    /\ last_call = <<"add", Some(<<1, 2, 3, 4, 5, 6, 7, 8, 9, 10>>)>>
    /\ tx_batch.batch = <<>>

\* a step that handles a render tick
IsTick == ticks' # ticks

\* C8: flush_if_timeout returns the pending records in arrival order and
\* empties the batch when the batch is not empty and more than
\* BATCH_TIMEOUT_MS have elapsed; otherwise it returns nothing and changes
\* nothing.
C8_FlushIfTimeout ==
    [][IsTick =>
         IF tx_batch.batch # <<>> /\ tx_batch.elapsed > BATCH_TIMEOUT_MS
         THEN /\ last_call' = <<"flush_if_timeout", Some(tx_batch.batch)>>
              /\ tx_batch'.batch = <<>>
         ELSE /\ last_call' = <<"flush_if_timeout", None>>
              /\ tx_batch' = tx_batch
              /\ app' = app]_vars

\* C8 witness: a tick has flushed a batch of several records, fewer than
\* BATCH_SIZE.
C8_Witness ==
    /\ last_call[1] = "flush_if_timeout"
    /\ last_call[2] # None
    /\ Len(last_call[2][1]) > 1
    /\ tx_batch.batch = <<>>

\* C9: the records applied to the log, oldest first, followed by the pending
\* batch are the records received from the channel, in arrival order, each
\* once (the log is in prepend mode and below its capacity).
C9_AppliedInArrivalOrder ==
    /\ Reverse(app.transactions) \o tx_batch.batch = received
    /\ \A i \in 1..Len(received) : received[i] = i

\* C9 witness: more than one batch applied, not all of BATCH_SIZE records,
\* and records pending.
C9_Witness ==
    /\ Len(app.transactions) > BATCH_SIZE
    /\ Len(app.transactions) % BATCH_SIZE # 0
    /\ tx_batch.batch # <<>>

\* the flags that are set
FlagsSet(s) ==
    {f \in {"quit_confirmation", "filter_active", "show_details"} :
        \/ f = "quit_confirmation" /\ s.quit_confirmation
        \/ f = "filter_active" /\ s.filter_active
        \/ f = "show_details" /\ s.show_details}

\* the handler of a mode
HandlerOfMode(m, key, s) ==
    CASE m = "QuitConfirm" -> handle_quit_confirmation(key, s)
      [] m = "FilterEditing" -> handle_filter_input(key, s)
      [] m = "DetailsOpen" -> handle_details_navigation(key, s)
      [] m = "Normal" -> handle_main_navigation(key, s)

\* the one mode whose flag is set, Normal when none is
ModeOfFlags(s) ==
    CASE FlagsSet(s) = {} -> "Normal"
      [] FlagsSet(s) = {"quit_confirmation"} -> "QuitConfirm"
      [] FlagsSet(s) = {"filter_active"} -> "FilterEditing"
      [] FlagsSet(s) = {"show_details"} -> "DetailsOpen"
      [] OTHER -> "Ambiguous"

\* C10: at most one of quit_confirmation, filter.active and show_details is
\* set, and a key event is handled by the handler of the mode that flag
\* gives (a step that is not an insert is a key event).
C10_ExactlyOneMode ==
    /\ [](Cardinality(FlagsSet(app)) <= 1)
    /\ [][~IsInsert =>
             \E key \in ModeKeys : app' = HandlerOfMode(ModeOfFlags(app), key, app)]_vars

\* C10 witness: the quit confirmation asked for over a log with records,
\* after a query was typed in the filter.
C10_Witness ==
    /\ app.quit_confirmation
    /\ has_query(app)
    /\ app.transactions # <<>>

\* C11: should_quit becomes true only by y or Y handled in QuitConfirm (and
\* does then); a key that sets quit_confirmation is handled in Normal and
\* leaves should_quit false; n, N and Esc in QuitConfirm give Normal, the
\* mode the confirmation was asked from, with should_quit false; no record
\* applied to the log changes should_quit.
C11_QuitOnlyByConfirm ==
    /\ [](~app.should_quit =>
            \A key \in Keys :
                LET t == handle_key_event(key, app)
                IN /\ t.should_quit <=> (app.quit_confirmation /\ key[1] \in {"y", "Y"})
                   /\ (t.quit_confirmation /\ ~app.quit_confirmation) =>
                          (Mode(app) = "Normal" /\ ~t.should_quit)
                   /\ (app.quit_confirmation /\ key[1] \in {"n", "N", "Esc"}) =>
                          (Mode(t) = "Normal" /\ ~t.should_quit))
    /\ [][app'.should_quit =>
             (~IsInsert /\ app.quit_confirmation /\ app' = handle_quit_confirmation(<<"y", "NONE">>, app))]_vars

\* C11 witness: the end of Scenario D, the quit confirmed from the dialog
\* over a log with records.
C11_Witness ==
    /\ app.should_quit
    /\ app.quit_confirmation
    /\ ~app.show_details
    /\ Len(app.transactions) = app.max_transactions
\* the entries of the trace that are e
Count(q, e) == Cardinality({i \in 1..Len(q) : q[i] = e})

\* C12: the reconnect task is never in a terminal state: it is at the top
\* of its loop, subscribing, forwarding or sleeping; every connect error,
\* subscribe error and end of the stream takes it to its sleep; the sleep
\* is only left for the top of the loop, and is left eventually, after any
\* number of failures in a row.
C12_SupervisorNeverTerminal ==
    /\ [](sup.pc \in {"loop", "subscribe", "forward", "sleep"})
    /\ [][sup'.pc # sup.pc =>
             CASE sup.pc = "loop" -> sup'.pc = (IF connect = "Ok" THEN "subscribe" ELSE "sleep")
               [] sup.pc = "subscribe" -> sup'.pc \in {"forward", "sleep"}
               [] sup.pc = "forward" -> sup'.pc = "sleep"
               [] sup.pc = "sleep" -> sup'.pc = "loop"
               [] OTHER -> FALSE]_vars
    /\ ((sup.pc = "sleep") ~> (sup.pc = "loop"))

\* C12 witness: a new attempt after two subscribe errors in a row.
C12_Witness ==
    /\ sup.pc = "subscribe"
    /\ sup.attempts = 3
    /\ Count(sup_trace, <<"subscribe", "Err">>) = 2
    /\ Count(sup_trace, <<"sleep">>) = 2
IsEventOrSleep(e) == e[1] \in {"Connected", "Disconnected", "sleep"}
IsAttemptResult(e) == e = <<"connect", "Err">> \/ e[1] = "subscribe"
Firsts(q) == [i \in 1..Len(q) |-> q[i][1]]
Seconds(q) == [i \in 1..Len(q) |-> q[i][2]]

\* C13 as stated: when the connection failed twice and then succeeded, the
\* task has emitted exactly Disconnected, (the delay), Disconnected, (the
\* delay), Connected, and nothing else, before it forwards records.
C13_ScenarioC ==
    (/\ sup.pc = "forward"
     /\ Seconds(SelectSeq(sup_trace, IsAttemptResult)) = <<"Err", "Err", "Ok">>)
        => Firsts(SelectSeq(sup_trace, IsEventOrSleep))
              = <<"Disconnected", "sleep", "Disconnected", "sleep", "Connected">>
\* C14 as stated: once a send has failed because the loop has returned, the
\* task makes no further connect or subscribe attempt.
C14_NoRetryAfterClosed ==
    [][Count(sup_trace, <<"send", "Err">>) > 0 =>
          (sup'.attempts = sup.attempts /\ sup'.pc \notin {"subscribe", "forward"})]_vars
\* C15: the record channel never holds more than CHANNEL_CAPACITY records;
\* while it is full the task that holds a record stays where it is until
\* the loop has taken a record; and while the loop runs, the records the
\* loop has taken, the records on the channel and the record the task holds
\* are the records the stream has yielded, in the order it yielded them.
C15_ChannelBounded ==
    /\ [](Len(channel) <= CHANNEL_CAPACITY)
    /\ [](rx_open =>
            received \o channel \o sup.holding = [i \in 1..sup.yielded |-> i])
    /\ [][(Len(channel) = CHANNEL_CAPACITY /\ sup.holding # None /\ rx_open) =>
             (sup' = sup /\ sent' = sent /\ channel' = Tail(channel))]_vars

\* C15 witness: the channel was full, the loop took a record, and the send
\* that waited has filled the channel again.
C15_Witness ==
    /\ Len(channel) = CHANNEL_CAPACITY
    /\ Len(received) >= 1
    /\ sent = CHANNEL_CAPACITY + Len(received)
    /\ sup.holding = None
\* C16: while the loop runs, a key event that is ready can be the next
\* thing handled whatever else is ready, and it is handled eventually, also
\* when app events and render ticks are ready at every iteration and
\* records wait on the channel.
C16_KeyboardNotStarved ==
    /\ []((input_events # <<>> /\ ~app.should_quit) => ENABLED SelectInput)
    /\ \A k \in 0..MaxKeys :
          (input_events # <<>> /\ keys_handled = k /\ ~app.should_quit)
              ~> (keys_handled > k)

\* C16 witness: a key event was handled and the next one is ready while
\* records wait on the channel.
C16_Witness ==
    /\ keys_handled >= 1
    /\ input_events # <<>>
    /\ channel # <<>>
    /\ ~app.should_quit
IsCall(op) == call' # call /\ call'[1] = op

\* C19 as stated: after any sequence of editing operations
\* 0 <= cursor_position <= len(query); add_char puts the character at the
\* cursor and moves the cursor forward by one; delete_char_before_cursor
\* with the cursor past the start removes the character left of the cursor
\* and moves the cursor back by one.
C19_CursorWithinQuery ==
    /\ [](app.filter_cursor \in 0..Len(app.filter_query))
    /\ [][IsCall("add_char") =>
             /\ ~app'.panicked
             /\ app'.filter_query = SubSeq(app.filter_query, 1, app.filter_cursor)
                                       \o utf8(call'[2])
                                       \o SubSeq(app.filter_query, app.filter_cursor + 1,
                                                 Len(app.filter_query))
             /\ app'.filter_cursor = app.filter_cursor + 1]_vars
    /\ [][(IsCall("delete_char_before_cursor") /\ app.filter_cursor > 0) =>
             /\ ~app'.panicked
             /\ Len(app'.filter_query) < Len(app.filter_query)
             /\ SubSeq(app'.filter_query, app'.filter_cursor + 1, Len(app'.filter_query))
                  = SubSeq(app.filter_query, app.filter_cursor + 1, Len(app.filter_query))
             /\ app'.filter_cursor = app.filter_cursor - 1]_vars
\* the reference predicate of the filter, on its own definitions
Lower(c) ==
    IF c = "A" THEN "a" ELSE IF c = "B" THEN "b" ELSE IF c = "C" THEN "c"
    ELSE IF c = "D" THEN "d" ELSE IF c = "E" THEN "e" ELSE IF c = "F" THEN "f"
    ELSE IF c = "G" THEN "g" ELSE IF c = "X" THEN "x" ELSE c
SameIgnoringCase(a, b) ==
    Len(a) = Len(b) /\ \A i \in 1..Len(a) : Lower(a[i]) = Lower(b[i])
Occurs(pattern, q) ==
    \E i \in 1..(Len(q) + 1), j \in 0..Len(q) :
        j - i + 1 = Len(pattern) /\ SameIgnoringCase(SubSeq(q, i, j), pattern)
HexDigits == {"0", "1", "2", "3", "4", "5", "6", "7", "8", "9", "a", "b", "c", "d", "e", "f"}
\* `0x` followed by exactly 64 hex digits of either case
WellFormedHash(q) ==
    /\ Len(q) = 66
    /\ q[1] = "0" /\ q[2] = "x"
    /\ \A i \in 3..66 : Lower(q[i]) \in HexDigits
Reference(query, tx) ==
    \/ query = <<>>
    \/ SameIgnoringCase(tx.hash, query)
    \/ Occurs(query, tx.from)
    \/ (tx.to # None /\ Occurs(query, tx.to[1]))
    \/ (~WellFormedHash(query) /\ Occurs(query, tx.hash))

\* C17: matches(record, query) is the reference predicate: the query is
\* empty, or equals the hash, or occurs in from, or occurs in to when there
\* is one, or is not hash-shaped and occurs in the hash, all ignoring the
\* letter case; the empty query matches every record and the hash of a
\* record, in either letter case, matches the record.
C17_MatchesReference ==
    /\ call[1] = "matches" => call[4] = Reference(call[2], call[3])
    /\ \A tx \in Records :
          /\ matches(<<>>, tx)
          /\ matches(tx.hash, tx)
          /\ \A q \in Queries : SameIgnoringCase(q, tx.hash) => matches(q, tx)

\* C17 witness: a query in capitals that is not hash-shaped and occurs in
\* the hash only has matched.
C17_Witness ==
    /\ call[1] = "matches"
    /\ call[2] = <<"C", "A">>
    /\ call[3].to = None
    /\ call[4] = TRUE

\* C18: a hash-shaped query (`0x` and 64 hex digits of either case) that
\* equals the hash of no record matches no record, also a record in whose
\* hash it occurs.
C18_HashShapedNeedsExactMatch ==
    (/\ call[1] = "matches"
     /\ WellFormedHash(call[2])
     /\ \A tx \in Records : ~SameIgnoringCase(tx.hash, call[2]))
        => call[4] = FALSE

\* C18 witness: the hash-shaped query, in capitals, occurs in the hash of
\* the record and has not matched it.
C18_Witness ==
    /\ call[1] = "matches"
    /\ WellFormedHash(call[2])
    /\ call[2][3] = "A"
    /\ \A tx \in Records : ~SameIgnoringCase(tx.hash, call[2])
    /\ Occurs(call[2], call[3].hash)
    /\ call[4] = FALSE
\* C20: on an empty log scroll_up, scroll_down, page_up, page_down,
\* jump_to_top and jump_to_bottom change nothing: selected and offset are 0
\* before and after.
C20_EmptyLogNoOp ==
    app.transactions = <<>> =>
        /\ app.selected = 0 /\ app.offset = 0
        /\ scroll_up(app) = app
        /\ scroll_down(app) = app
        /\ page_up(app) = app
        /\ page_down(app) = app
        /\ jump_to_top(app) = app
        /\ jump_to_bottom(app) = app

\* C20 witness: a log emptied by clear_transactions after records were
\* applied and the direction was toggled.
C20_Witness ==
    /\ app.transactions = <<>>
    /\ app.total_transactions >= 2
    /\ ~app.show_new_on_top
    /\ app.max_transactions >= 2

\* a step in which the loop handles a key event
IsKeyHandled == keys_handled' # keys_handled

\* the loop returns right after the key event that sets should_quit
ReturnsAfterQuitKey ==
    [][(app'.should_quit /\ ~app.should_quit) => (IsKeyHandled /\ rx_open /\ ~rx_open')]_vars

\* once should_quit is set no record, app event, key event or render is
\* applied
NothingAfterQuit ==
    [][app.should_quit =>
          /\ app' = app
          /\ tx_batch'.batch = tx_batch.batch
          /\ received' = received
          /\ keys_handled' = keys_handled
          /\ render_state'.needs_render = render_state.needs_render
          /\ frames' = frames]_vars

\* C21 as stated: the loop has returned exactly when should_quit is set; it
\* returns right after the key event that set should_quit; and once
\* should_quit is set no record, app event, key event or render is applied.
C21_LoopEndsExactlyOnQuit ==
    /\ [](rx_open <=> ~app.should_quit)
    /\ ReturnsAfterQuitKey
    /\ NothingAfterQuit

\* C22: processing Disconnected(msg) gives connected = false and
\* last_error = msg; while disconnected with an error, no key event and no
\* record event changes connected or last_error; processing Connected gives
\* connected = true and no last_error; and in every reachable state
\* connected implies that last_error is absent.
C22_ErrorPersistsUntilConnected ==
    /\ app.connected => app.last_error = None
    /\ \A msg \in ErrorMessages :
          LET t == process_disconnected(msg, app)
          IN ~t.connected /\ t.last_error = Some(msg)
    /\ LET t == process_connected(app)
       IN t.connected /\ t.last_error = None
    /\ (~app.connected /\ app.last_error # None) =>
          /\ \A key \in Keys :
                LET t == process_input(key, app)
                IN t.connected = app.connected /\ t.last_error = app.last_error
          /\ LET t == process_transaction(app.total_transactions + 1, app)
             IN t.connected = app.connected /\ t.last_error = app.last_error

\* C22 witness: disconnected with the message of the last Disconnected
\* event, after a record was applied and a key asked for the quit
\* confirmation.
C22_Witness ==
    /\ ~app.connected
    /\ app.last_error = Some("Subscription error")
    /\ app.total_transactions >= 1
    /\ app.quit_confirmation

\* C23: in append mode every insert made while selected > 0 leaves the
\* record under the cursor where the cursor is: below capacity the record is
\* pushed at the tail and selected and offset stay; at capacity the head is
\* evicted, selected is decremented by one, and offset is decremented by one
\* when positive.
C23_AppendKeepsCursorRecord ==
    [][(IsInsert /\ ~app.show_new_on_top /\ app.selected > 0) =>
          /\ RecordAt(app) # None
          /\ RecordAt(app') = RecordAt(app)
          /\ IF Len(app.transactions) < app.max_transactions
             THEN /\ app'.transactions = Append(app.transactions, app'.total_transactions)
                  /\ app'.selected = app.selected
                  /\ app'.offset = app.offset
             ELSE /\ app'.transactions
                       = Append(Tail(app.transactions), app'.total_transactions)
                  /\ app'.selected = app.selected - 1
                  /\ app'.offset = (IF app.offset > 0 THEN app.offset - 1 ELSE 0)]_vars

\* C23 witness: append mode, the head evicted by the last insert, the
\* cursor one row above the last row of the window and the window at the
\* top, as the insert leaves them when the cursor was on the last record
\* with the window scrolled down by one.
C23_Witness ==
    /\ ~app.show_new_on_top
    /\ Len(inserted) = app.max_transactions + 1
    /\ Head(app.transactions) = 2
    /\ app.selected = app.max_transactions - 2
    /\ app.offset = 0

\* C24: clear_transactions empties the log, sets offset and selected to 0,
\* sets show_details to false and selected_transaction to None, and leaves
\* every other field as it is: show_new_on_top, the filter, connected,
\* last_error and total_transactions among them.  The keys c and Shift-C in
\* Normal mode do exactly that.
C24_ClearResetsLogAndView ==
    /\ LET t == clear_transactions(app)
       IN /\ t.transactions = <<>>
          /\ t.offset = 0 /\ t.selected = 0
          /\ ~t.show_details /\ t.selected_transaction = None
          /\ t.show_new_on_top = app.show_new_on_top
          /\ t.filter_query = app.filter_query
          /\ t.filter_active = app.filter_active
          /\ t.filter_cursor = app.filter_cursor
          /\ t.connected = app.connected
          /\ t.last_error = app.last_error
          /\ t.total_transactions = app.total_transactions
          /\ t = [app EXCEPT !.transactions = <<>>, !.offset = 0, !.selected = 0,
                             !.show_details = FALSE, !.selected_transaction = None]
    /\ Mode(app) = "Normal" =>
          \A key \in {<<"c", "NONE">>, <<"C", "SHIFT">>} :
              process_input(key, app) = clear_transactions(app)

\* C24 witness: clear_transactions applied to an open details view over a
\* log in append mode, with a filter query, an error message and records
\* counted.
C24_Witness ==
    /\ app.show_details
    /\ app.selected_transaction # None
    /\ app.transactions # <<>>
    /\ ~app.show_new_on_top
    /\ has_query(app)
    /\ app.last_error # None
    /\ app.total_transactions > app.max_transactions
    /\ ~clear_transactions(app).show_details

\* the row selected is one of the vh rows drawn from offset on
Visible(s, vh) == s.offset <= s.selected /\ s.selected <= s.offset + vh - 1

\* C25 as stated: for every height of the terminal, scroll_up and
\* scroll_down applied to a state whose cursor is on a record (or on row 0
\* of the empty log) and visible move selected by one step clamped to
\* [0, length - 1], leave selected inside [offset, offset + visible_height
\* - 1], and move offset only when selected would leave that window, to
\* the nearest value that keeps it inside.
C25_CursorStaysVisible ==
    \A h \in TerminalHeights :
        LET vh == visible_height(list_area_height(h))
            len == Len(app.transactions)
            up == scroll_up(app)
            down == scroll_down(app)
        IN (app.selected < Max(len, 1) /\ Visible(app, vh)) =>
              /\ up.selected = saturating_sub(app.selected, 1)
              /\ down.selected = Min(app.selected + 1, Max(len, 1) - 1)
              /\ Visible(up, vh)
              /\ Visible(down, vh)
              /\ up.offset = Min(app.offset, up.selected)
              /\ down.offset = Max(app.offset, saturating_sub(down.selected + 1, vh))

\* the milliseconds since the batch that the next add extends began: none
\* for the record that begins a batch
AgeAtAdd == IF tx_batch.batch = <<>> THEN 0 ELSE batch_age

\* C26 as stated: an add that makes the batch hold fewer than BATCH_SIZE
\* records returns nothing unless more than BATCH_TIMEOUT_MS have passed
\* since the first record of that batch was added; the record that begins
\* a batch, after an idle period also, is therefore kept.
C26_TimeoutFromBatchStart ==
    [][(/\ IsRecv
        /\ Len(tx_batch.batch) + 1 < BATCH_SIZE
        /\ AgeAtAdd <= BATCH_TIMEOUT_MS)
          => (last_call' = <<"add", None>>
              /\ tx_batch'.batch = Append(tx_batch.batch, Head(channel)))]_vars

\* the timer of the batch runs from the last flush (or from new()), which
\* is not later than the first record of the pending batch
TimerNotYoungerThanBatch ==
    tx_batch.batch # <<>> => batch_age <= tx_batch.elapsed

Range(q) == {q[i] : i \in 1..Len(q)}

\* C27: a render tick that comes when more than BATCH_TIMEOUT_MS have
\* passed since the pending batch began applies the whole batch to the log
\* and leaves the batch empty; every record taken from the channel is in
\* the batch or in the log; and a pending batch is applied eventually, also
\* when no further record arrives.
C27_BatchLatencyBounded ==
    /\ [][(IsTick /\ tx_batch.batch # <<>> /\ batch_age > BATCH_TIMEOUT_MS) =>
             /\ tx_batch'.batch = <<>>
             /\ Range(tx_batch.batch) \subseteq Range(app'.transactions)]_vars
    /\ [](Range(received) = Range(tx_batch.batch) \cup Range(app.transactions))
    /\ ((tx_batch.batch # <<>>) ~> (tx_batch.batch = <<>>))

\* C27 witness: the one record the source has sent was applied by a render
\* tick, no other record having arrived.
C27_Witness ==
    /\ last_call = <<"flush_if_timeout", Some(<<1>>)>>
    /\ app.transactions = <<1>>
    /\ sent = 1
    /\ tx_batch.batch = <<>>

\* C28: in Normal mode q, Ctrl-C, and Esc with an empty query only set
\* quit_confirmation: the mode becomes QuitConfirm, should_quit stays
\* false and the log is as it was; Esc with a non-empty query clears the
\* query, sets offset and selected to 0 and leaves the mode Normal and the
\* log as it was; and in no mode does Ctrl-C change the log.
C28_NormalQuitKeys ==
    /\ Mode(app) = "Normal" =>
          /\ \A key \in {<<"q", "NONE">>, <<"c", "CONTROL">>}
                          \cup (IF has_query(app) THEN {} ELSE {<<"Esc", "NONE">>}) :
                LET t == process_input(key, app)
                IN /\ t = [app EXCEPT !.quit_confirmation = TRUE]
                   /\ Mode(t) = "QuitConfirm"
                   /\ ~t.should_quit
                   /\ t.transactions = app.transactions
          /\ has_query(app) =>
                LET t == process_input(<<"Esc", "NONE">>, app)
                IN /\ t.filter_query = <<>>
                   /\ t.offset = 0 /\ t.selected = 0
                   /\ Mode(t) = "Normal"
                   /\ ~t.should_quit
                   /\ t.transactions = app.transactions
    /\ process_input(<<"c", "CONTROL">>, app).transactions = app.transactions

\* C28 witness: Normal mode with a query and the cursor below the first
\* record of the log: Esc clears the query and resets the viewport, Ctrl-C
\* asks for the quit confirmation.
C28_Witness ==
    /\ Mode(app) = "Normal"
    /\ has_query(app)
    /\ app.selected > 0
    /\ RecordAt(app) # None
    /\ process_input(<<"Esc", "NONE">>, app).selected = 0
    /\ ~has_query(process_input(<<"Esc", "NONE">>, app))
    /\ Mode(process_input(<<"c", "CONTROL">>, app)) = "QuitConfirm"

\* C29: in FilterEditing Enter gives Normal with the query as it is; Esc
\* gives Normal with the query empty, the cursor of the filter at 0 and
\* offset and selected at 0; both leave the log as it is.
C29_LeavingFilterEditing ==
    Mode(app) = "FilterEditing" =>
        /\ LET t == process_input(<<"Enter", "NONE">>, app)
           IN /\ Mode(t) = "Normal"
              /\ t.filter_query = app.filter_query
              /\ t.transactions = app.transactions
        /\ LET t == process_input(<<"Esc", "NONE">>, app)
           IN /\ Mode(t) = "Normal"
              /\ t.filter_query = <<>>
              /\ t.filter_cursor = 0
              /\ t.offset = 0 /\ t.selected = 0
              /\ t.transactions = app.transactions

\* C29 witness: FilterEditing with a query typed and the cursor of the list
\* below the first record.
C29_Witness ==
    /\ Mode(app) = "FilterEditing"
    /\ has_query(app)
    /\ app.filter_cursor > 0
    /\ app.selected > 0
    /\ RecordAt(app) # None
    /\ has_query(process_input(<<"Enter", "NONE">>, app))
    /\ process_input(<<"Esc", "NONE">>, app).selected = 0

\* C30: show_details is true exactly when selected_transaction holds a
\* record; Enter in Normal mode gives DetailsOpen with a copy of the record
\* at index selected when there is one, and changes nothing otherwise; Esc,
\* Enter and q in DetailsOpen give Normal without a copy; and while
\* show_details stays true the copy stays the same, whatever is inserted
\* or evicted.
C30_DetailsHoldCopy ==
    /\ [](app.show_details <=> app.selected_transaction # None)
    /\ [](Mode(app) = "Normal" =>
            LET t == process_input(<<"Enter", "NONE">>, app)
            IN IF RecordAt(app) # None
               THEN Mode(t) = "DetailsOpen" /\ t.selected_transaction = RecordAt(app)
               ELSE t = app)
    /\ [](Mode(app) = "DetailsOpen" =>
            \A key \in {<<"Esc", "NONE">>, <<"Enter", "NONE">>, <<"q", "NONE">>} :
                LET t == process_input(key, app)
                IN Mode(t) = "Normal" /\ t.selected_transaction = None)
    /\ [][(app.show_details /\ app'.show_details) =>
             app'.selected_transaction = app.selected_transaction]_vars

\* C30 witness: the details view is open on a record that was evicted from
\* the log after the view was opened.
C30_Witness ==
    /\ app.show_details
    /\ app.selected_transaction # None
    /\ app.selected_transaction[1] \notin Range(app.transactions)
    /\ app.total_transactions > app.max_transactions
    /\ app.transactions # <<>>


----------------------------------------------------------------------------
\* The keys of the actions of handle_main_navigation: reconnect trigger,
\* toggle of the sort direction, clear of the log
ActionKeys == {<<"r", "NONE">>, <<"t", "NONE">>, <<"c", "NONE">>, <<"C", "SHIFT">>}

\* the query with character c put at char position pos of its characters
\* (the query of the model is the byte sequence; an ASCII character is one
\* byte, a character of WideChars two)
CharStart(q, pos) ==
    LET starts == {i \in 0..Len(q) : is_char_boundary(q, i)}
    IN IF Cardinality({i \in starts : i < Len(q)}) < pos THEN Len(q)
       ELSE CHOOSE i \in starts : Cardinality({j \in starts : j < i}) = pos

InsertedAt(q, pos, c) ==
    LET b == CharStart(q, pos)
    IN SubSeq(q, 1, b) \o utf8(c) \o SubSeq(q, b + 1, Len(q))

\* C31: the keys r, t, c and Shift-C act on the log, the direction flag,
\* the viewport and the connectivity flag only in Normal mode: in
\* QuitConfirm and DetailsOpen they change nothing, and in FilterEditing
\* they only insert their character into the query at the cursor.
C31_ActionsOnlyInNormal ==
    \A key \in ActionKeys :
        LET t == process_input(key, app)
        IN /\ Mode(app) \in {"QuitConfirm", "DetailsOpen"} => t = app
           /\ Mode(app) = "FilterEditing" =>
                t = [app EXCEPT
                       !.filter_query = InsertedAt(app.filter_query, app.filter_cursor, key[1]),
                       !.filter_cursor = app.filter_cursor + 1]

----------------------------------------------------------------------------
NavigationCodes == {"Up", "Down", "PageUp", "PageDown", "Home", "End"}

\* the operation of the viewport (selected, offset) a navigation key names
ViewportOp(code, s) ==
    CASE code = "Up" -> scroll_up(s)
      [] code = "Down" -> scroll_down(s)
      [] code = "PageUp" -> page_up(s)
      [] code = "PageDown" -> page_down(s)
      [] code = "Home" -> jump_to_top(s)
      [] code = "End" -> jump_to_bottom(s)

\* C32, as stated: a navigation key is routed to the operation of the
\* viewport in Normal and in DetailsOpen mode, and in FilterEditing mode it
\* moves at most the cursor of the filter and leaves the viewport alone.
C32_NavigationToViewport ==
    \A code \in NavigationCodes :
        LET t == process_input(<<code, "NONE">>, app)
        IN /\ Mode(app) \in {"Normal", "DetailsOpen"} => t = ViewportOp(code, app)
           /\ Mode(app) = "FilterEditing" =>
                t = [app EXCEPT !.filter_cursor = t.filter_cursor]

\* C32, amended: a navigation key is routed to the operation of the
\* viewport in Normal mode only.  In DetailsOpen mode Up, Down, PageUp,
\* PageDown and Home scroll the details (by 1, by 10, to 0), End does
\* nothing, and the viewport is left alone.  In FilterEditing mode Home and
\* End put the cursor of the filter at the start and at the end of the
\* query, the four other keys do nothing, and the viewport is left alone.
C32_NavigationRouting ==
    \A code \in NavigationCodes :
        LET t == process_input(<<code, "NONE">>, app)
            d == app.details_scroll_offset
        IN /\ Mode(app) = "Normal" => t = ViewportOp(code, app)
           /\ Mode(app) = "DetailsOpen" =>
                t = [app EXCEPT !.details_scroll_offset =
                       CASE code = "Up" -> saturating_sub(d, 1)
                         [] code = "Down" -> d + 1
                         [] code = "PageUp" -> saturating_sub(d, 10)
                         [] code = "PageDown" -> d + 10
                         [] code = "Home" -> 0
                         [] code = "End" -> d]
           /\ Mode(app) = "FilterEditing" =>
                t = [app EXCEPT !.filter_cursor =
                       CASE code = "Home" -> 0
                         [] code = "End" -> Len(app.filter_query)
                         [] OTHER -> app.filter_cursor]

\* the details are open and scrolled over a list whose selection could move
C32_Witness ==
    /\ Mode(app) = "DetailsOpen"
    /\ app.details_scroll_offset > 0
    /\ app.selected > 0
    /\ app.selected + 1 < Len(app.transactions)

----------------------------------------------------------------------------
\* the step of the task from its forwarding loop to its sleep because the
\* stream of the subscription has ended (and not because a send failed)
IsStreamEnd == sup.pc = "forward" /\ sup.holding = None /\ sup'.pc = "sleep"

\* C33: when the source closes the feed, the task sends a Disconnected
\* event before it starts to wait the fixed delay, as it does after a
\* connect or subscribe error.
C33_StreamEndEmitsDisconnected ==
    [][IsStreamEnd =>
          /\ Len(sup_trace') = Len(sup_trace) + 1
          /\ sup_trace'[Len(sup_trace')][1] = "Disconnected"]_vars

----------------------------------------------------------------------------
\* a step that draws a frame
IsDraw == frames' # frames

\* C34: a render tick applies the batch that has timed out and then
\* decides on the draw: it draws exactly when a render is asked for (before
\* the tick or by its flush) and FRAME_TIME_MS have passed since the last
\* draw.  A frame is drawn on a tick only, and the draw clears the request
\* and restarts the frame timer.  A request is never dropped without a
\* draw, and it is never raised by the passing of time or by a tick that
\* applied no batch.
C34_RenderThrottle ==
    /\ [][IsTick =>
            LET r == flush_if_timeout(tx_batch)
            IN /\ app' = apply_result(r.ret, app)
               /\ IsDraw <=> /\ render_state.needs_render \/ r.ret # None
                             /\ render_state.elapsed >= FRAME_TIME_MS]_vars
    /\ [][IsDraw => /\ IsTick
                    /\ ~render_state'.needs_render
                    /\ render_state'.elapsed = 0]_vars
    /\ [][(render_state.needs_render /\ ~IsDraw) => render_state'.needs_render]_vars
    /\ [][(~render_state.needs_render /\ render_state'.needs_render) =>
             /\ render_state'.elapsed = render_state.elapsed
             /\ IsTick => flush_if_timeout(tx_batch).ret # None]_vars

\* C34 witness: after a first frame, a tick has applied a timed-out batch
\* less than FRAME_TIME_MS after the draw, and the request of that batch is
\* still pending (no key and no app event has asked for a render).
C34_Witness ==
    /\ frames = 1
    /\ last_call[1] = "flush_if_timeout"
    /\ last_call[2] # None
    /\ render_state.needs_render
    /\ render_state.elapsed \in 1..(FRAME_TIME_MS - 1)
    /\ keys_handled = 0
    /\ ~app.connected
    /\ app.last_error = None

----------------------------------------------------------------------------
\* a step in which a one-shot lookup ends, and a step in which the loop
\* handles the message of a failed lookup
IsFetchEnd == fetch' < fetch
IsFetchErrorHandled ==
    /\ events # <<>>
    /\ events' = Tail(events)
    /\ Head(events) \in {Disconnected("Failed to fetch transaction"),
                         Disconnected("Connection error")}

\* C35: a failed one-shot lookup puts exactly one Disconnected message on
\* the app-event channel and touches nothing else; when the loop handles
\* that message it records the error and leaves the log, the batch, the
\* record channel and the reconnect task as they are; and whatever error is
\* shown, each record the loop takes and each render tick applies to the log
\* what the batch returns.
C35_FailedLookupLeavesSubscription ==
    /\ [][IsFetchEnd =>
            /\ Len(events') = Len(events) + 1
            /\ events'[Len(events')][1] = "Disconnected"
            /\ SubSeq(events', 1, Len(events)) = events
            /\ UNCHANGED <<app, sup, sup_trace, channel, sent, tx_batch, rx_open>>]_vars
    /\ [][IsFetchErrorHandled =>
            /\ app' = [app EXCEPT !.last_error = Some(Head(events)[2]),
                                  !.connected = FALSE]
            /\ UNCHANGED <<sup, sup_trace, channel, sent, tx_batch, rx_open>>]_vars
    /\ [][IsRecv => app' = apply_result(add(tx_batch, Head(channel)).ret, app)]_vars
    /\ [][IsTick => app' = apply_result(flush_if_timeout(tx_batch).ret, app)]_vars

\* C35 witness: the failure of a lookup is shown while the task forwards,
\* and both records of the stream are in the log
C35_Witness ==
    /\ app.last_error = Some("Failed to fetch transaction")
    /\ sup.pc = "forward"
    /\ events = <<>>
    /\ fetch = 0
    /\ app.transactions = <<2, 1>>

----------------------------------------------------------------------------
\* C36: while the reconnect task forwards the records of its stream and
\* the loop has handled every app event sent so far, the state shows
\* connected: no key and no result of a lookup has set the flag to false.
C36_ConnectedWhileStreaming ==
    (sup.pc = "forward" /\ events = <<>> /\ rx_open) => app.connected

----------------------------------------------------------------------------
\* the trace of the last attempt of the task: from its last
\* Disconnected("Connecting to RPC endpoint...") on
LastAttempt(q) ==
    LET starts == {i \in 1..Len(q) : q[i] = Disconnected("Connecting to RPC endpoint...")}
    IN IF starts = {} THEN <<>>
       ELSE SubSeq(q, CHOOSE i \in starts : \A j \in starts : j <= i, Len(q))

\* C37: an attempt of the task has sent Connected only when both connect
\* and subscribe have succeeded in it: Connected never comes before the
\* result of subscribe, and an attempt whose subscribe failed has sent none.
C37_ConnectedOnlyWithStream ==
    LET a == LastAttempt(sup_trace)
    IN \A i \in 1..Len(a) :
          a[i] = Connected =>
             \E j \in 1..(i - 1) : a[j] = <<"subscribe", "Ok">>

----------------------------------------------------------------------------
\* The record with serial number id: the records of the source differ in
\* their recipient, every second one creates a contract and has none.
RecordOf(id) ==
    [hash |-> <<"0", "x">> \o Rep("a", 64),
     from |-> <<"0", "x">> \o Rep("b", 40),
     to |-> IF id % 2 = 1 THEN Some(<<"0", "x">> \o Rep("c", 40)) ELSE None]

MatchesQuery(q, id) == matches(q, RecordOf(id))

\* AppState::get_filtered_transactions, which render_transaction_list
\* draws: the records of the log that match the query of the filter, in the
\* order of the log
get_filtered_transactions(s) ==
    LET Keep(id) == MatchesQuery(s.filter_query, id)
    IN SelectSeq(s.transactions, Keep)

\* C38: with a query set, the selection is an index into the filtered list
\* that is drawn.  From a state of Normal mode whose selection is a row of
\* the filtered list, a navigation key leaves it a row of the filtered
\* list, and Enter opens the details of the record of that row.
C38_SelectionInFilteredView ==
    LET shown == get_filtered_transactions(app)
    IN (/\ Mode(app) = "Normal"
        /\ has_query(app)
        /\ app.selected < Len(shown))
          => /\ \A code \in NavigationCodes :
                   process_input(<<code, "NONE">>, app).selected < Len(shown)
             /\ process_input(<<"Enter", "NONE">>, app).selected_transaction
                   = Some(shown[app.selected + 1])

----------------------------------------------------------------------------
\* C39: the selected row lies within the window of viewport_height rows
\* that starts at offset.
C39_SelectedWithinWindow == app.selected <= app.offset + (viewport_height - 1)

\* C39 witness: the selection is the last row of a window that has moved
\* off the top, in the append direction, after an eviction.
C39_Witness ==
    /\ app.selected = app.offset + (viewport_height - 1)
    /\ app.offset > 0
    /\ ~app.show_new_on_top
    /\ app.total_transactions > app.max_transactions
============================================================================
